---- MODULE Spec2Model ----
(***************************************************************************)
(* Resume intake and scoring pipeline with its token ledger.               *)
(*                                                                         *)
(* The model follows backend/main.py (the /process endpoint, the token     *)
(* functions and the token endpoints), backend/services/gpt_service.py     *)
(* (the scorer) and backend/tasks/resume_tasks.py (the background batch).  *)
(*                                                                         *)
(* One owner is modelled: every ledger guarantee of the program is per     *)
(* owner.  Scores are in tenths (7.0 is 70).  Every call to the balance    *)
(* store (get, set, update, add) is one step, so that server processes     *)
(* sharing the store interleave between the calls, and every such call     *)
(* may raise.                                                              *)
(***************************************************************************)
EXTENDS Integers, Sequences, FiniteSets, TLC

\* ---- bounds ----
JdFileDocs == 1       \* documents of a request with a job-description file
MaxDocs == 2          \* documents per batch in Spec
LedgerDocs == 1       \* documents per batch in SpecLedger
LargeDocs == 6        \* documents per batch in SpecLarge
MaxLowTokens == 2     \* the initial stored balance is 0..MaxLowTokens or the grant
MaxRequests == 1      \* requests served by the process of SpecOrder
LedgerRequests == 2   \* requests served by the two processes of SpecLedger
SeqRequests == 3      \* requests served one after the other in SpecSequence
MaxScore == 110       \* scores enumerated for the categorizer, in tenths
MaxRecipients == 3    \* candidates of one send request
MaxStored == 2        \* documents of collection resumeData before a request adds
MaxBlankLines == 10   \* blank lines a text of SpecName begins with
MaxFragments == 3     \* fragments a text of SpecExtract or SpecValidate is made of

\* ---- program constants ----
InitialGrant == 100
PackageTokens == 100
\* a semaphore created one slot too wide
SemaphoreLimit_six == 5 + 1

SemaphoreLimit == 5
batch_size == 5

Clients == {"p1", "p2"}

VARIABLES
    FIREBASE_AVAILABLE,  \* module flag: the firebase import succeeded
    S3_AVAILABLE,        \* module flag: the s3_service import succeeded
    user_tokens,         \* the owner's document of collection user_tokens
    token_usage,         \* collection token_usage, in insertion order
    hpc,                 \* per process: position in the request handler
    req,                 \* per process: the request being served
    call,                \* per process: the ledger function in progress
    resp,                \* per process: the last response
    served,              \* per process: number of requests accepted
    docs,                \* per process: the tasks of asyncio.gather
    semaphore,           \* per process: value of the asyncio.Semaphore
    task,                \* the background process_resume_batch run
    mail,                \* the mail-sending request in progress
    resumeData,          \* collection resumeData, in insertion order
    storeResp,           \* the last response of a record-store endpoint
    purchased,           \* history: number of purchases answered with success
    probe                \* a pure function applied to an enumerated input

vars == <<FIREBASE_AVAILABLE, S3_AVAILABLE, user_tokens, token_usage, hpc, req, call, resp,
          served, docs, semaphore, task, mail, resumeData, storeResp, purchased,
          probe>>

moduleFlags == <<FIREBASE_AVAILABLE, S3_AVAILABLE>>
ledgerVars == <<user_tokens, token_usage>>
batchVars == <<docs, semaphore>>
sideVars == <<mail, resumeData, storeResp, purchased>>

\* ------------------------------------------------------------------------
\* Ledger values
\* ------------------------------------------------------------------------
NoBalance == [exists |-> FALSE, tokens |-> 0, total_used |-> 0]

Balance(t, u) == [exists |-> TRUE, tokens |-> t, total_used |-> u]

\* the dict get_user_tokens returns when it does not return the document
DefaultBalance == Balance(InitialGrant, 0)

\* token_data of initialize_user_tokens
token_data == Balance(InitialGrant, 0)

usage_data(amount, operation) ==
    [user_id |-> "u1", tokens_used |-> amount, operation |-> operation]

\* a cost that is not one token per resume
calculate_tokens_needed_plus(resume_count) == resume_count + 1

calculate_tokens_needed(resume_count) == resume_count

IdleCall ==
    [pc |-> "idle", fn |-> "none", via |-> "none", amount |-> 0,
     snap |-> NoBalance, ok |-> FALSE, bal |-> NoBalance,
     pre |-> NoBalance, prelog |-> 0, updated |-> FALSE,
     init |-> "none", ipre |-> NoBalance, wrote |-> NoBalance]

\* ------------------------------------------------------------------------
\* initialize_user_tokens, get_user_tokens, use_tokens as call records
\* ------------------------------------------------------------------------
\* return of initialize_user_tokens to whoever called it
\* init is what the call of initialize_user_tokens returned, ipre the stored
\* document when it was called and wrote the document it has set
LeaveInit(k, val) ==
    LET r == [k EXCEPT !.init = IF val THEN "true" ELSE "false"] IN
    CASE k.via = "top" -> [r EXCEPT !.pc = "ret", !.ok = val]
      [] k.via = "get" -> [r EXCEPT !.pc = "ret", !.bal = DefaultBalance]
      [] OTHER         -> [r EXCEPT !.pc = "use_get2"]

EnterInit(k, via) ==
    LET e == [k EXCEPT !.via = via, !.init = "running", !.ipre = user_tokens] IN
    IF ~FIREBASE_AVAILABLE
    THEN LeaveInit(e, TRUE)
    ELSE [e EXCEPT !.pc = "init_get"]

EnterGet(k) ==
    IF ~FIREBASE_AVAILABLE
    THEN [k EXCEPT !.pc = "ret", !.fn = "get", !.bal = DefaultBalance]
    ELSE [k EXCEPT !.pc = "gut_get", !.fn = "get"]

EnterUse(k, amount) ==
    IF ~FIREBASE_AVAILABLE
    THEN [k EXCEPT !.pc = "ret", !.fn = "use", !.amount = amount, !.ok = TRUE,
                   !.pre = user_tokens, !.prelog = Len(token_usage)]
    ELSE [k EXCEPT !.pc = "use_get", !.fn = "use", !.amount = amount,
                   !.pre = user_tokens, !.prelog = Len(token_usage)]

\* use_tokens without its sufficiency check
InsufficientTokens_never(current_tokens, tokens_used) == FALSE

InsufficientTokens(current_tokens, tokens_used) ==
    current_tokens.tokens < tokens_used

\* lines 202-204 of use_tokens
UseCheck(k, current_tokens) ==
    IF InsufficientTokens(current_tokens, k.amount)
    THEN [k EXCEPT !.pc = "ret", !.ok = FALSE]
    ELSE [k EXCEPT !.pc = "use_update", !.snap = current_tokens]

\* lines 207-214 of use_tokens: the document after the update
UseUpdate(doc, current_tokens, tokens_used) ==
    [doc EXCEPT !.tokens = current_tokens.tokens - tokens_used,
                !.total_used = current_tokens.total_used + tokens_used]

\* initialize_user_tokens without its test of existing_tokens.exists
init_get_always(c) ==
    /\ call[c].pc = "init_get"
    /\ \E raises \in BOOLEAN :
         call' = [call EXCEPT ![c] =
                    IF raises THEN LeaveInit(@, FALSE)
                    ELSE [@ EXCEPT !.pc = "init_set"]]
    /\ UNCHANGED <<moduleFlags, sideVars, ledgerVars, hpc, req, resp, served,
                   batchVars, task, probe>>

init_get(c) ==
    /\ call[c].pc = "init_get"
    /\ \E raises \in BOOLEAN :
         call' = [call EXCEPT ![c] =
                    IF raises THEN LeaveInit(@, FALSE)
                    ELSE IF user_tokens.exists THEN LeaveInit(@, TRUE)
                    ELSE [@ EXCEPT !.pc = "init_set"]]
    /\ UNCHANGED <<moduleFlags, sideVars, ledgerVars, hpc, req, resp, served,
                   batchVars, task, probe>>

init_set(c) ==
    /\ call[c].pc = "init_set"
    /\ \E raises \in BOOLEAN :
         /\ user_tokens' = IF raises THEN user_tokens ELSE token_data
         /\ call' = [call EXCEPT ![c] =
                      LeaveInit([@ EXCEPT !.wrote = IF raises THEN @ ELSE token_data],
                                ~raises)]
    /\ UNCHANGED <<moduleFlags, sideVars, token_usage, hpc, req, resp, served,
                   batchVars, task, probe>>

gut_get(c) ==
    /\ call[c].pc = "gut_get"
    /\ \E raises \in BOOLEAN :
         call' = [call EXCEPT ![c] =
                    IF raises THEN [@ EXCEPT !.pc = "ret", !.bal = DefaultBalance]
                    ELSE IF user_tokens.exists
                         THEN [@ EXCEPT !.pc = "ret", !.bal = user_tokens]
                    ELSE EnterInit(@, "get")]
    /\ UNCHANGED <<moduleFlags, sideVars, ledgerVars, hpc, req, resp, served,
                   batchVars, task, probe>>

use_get(c) ==
    /\ call[c].pc = "use_get"
    /\ \E raises \in BOOLEAN :
         call' = [call EXCEPT ![c] =
                    IF raises THEN [@ EXCEPT !.pc = "ret", !.ok = FALSE]
                    ELSE IF ~user_tokens.exists THEN EnterInit(@, "use")
                    ELSE UseCheck(@, user_tokens)]
    /\ UNCHANGED <<moduleFlags, sideVars, ledgerVars, hpc, req, resp, served,
                   batchVars, task, probe>>

\* the second get, after initialize_user_tokens; a document that is still
\* missing makes to_dict() return None and the subscript raise
use_get2(c) ==
    /\ call[c].pc = "use_get2"
    /\ \E raises \in BOOLEAN :
         call' = [call EXCEPT ![c] =
                    IF raises \/ ~user_tokens.exists
                    THEN [@ EXCEPT !.pc = "ret", !.ok = FALSE]
                    ELSE UseCheck(@, user_tokens)]
    /\ UNCHANGED <<moduleFlags, sideVars, ledgerVars, hpc, req, resp, served,
                   batchVars, task, probe>>

use_update(c) ==
    /\ call[c].pc = "use_update"
    /\ \E raises \in BOOLEAN :
         IF raises
         THEN /\ call' = [call EXCEPT ![c] = [@ EXCEPT !.pc = "ret", !.ok = FALSE]]
              /\ UNCHANGED user_tokens
         ELSE /\ user_tokens' = UseUpdate(user_tokens, call[c].snap, call[c].amount)
              /\ call' = [call EXCEPT ![c] = [@ EXCEPT !.pc = "use_add",
                                                       !.updated = TRUE]]
    /\ UNCHANGED <<moduleFlags, sideVars, token_usage, hpc, req, resp, served,
                   batchVars, task, probe>>

use_add(c) ==
    /\ call[c].pc = "use_add"
    /\ \E raises \in BOOLEAN :
         IF raises
         THEN /\ call' = [call EXCEPT ![c] = [@ EXCEPT !.pc = "ret", !.ok = FALSE]]
              /\ UNCHANGED token_usage
         ELSE /\ token_usage' =
                   Append(token_usage, usage_data(call[c].amount, "resume_screening"))
              /\ call' = [call EXCEPT ![c] = [@ EXCEPT !.pc = "ret", !.ok = TRUE]]
    /\ UNCHANGED <<moduleFlags, sideVars, user_tokens, hpc, req, resp, served,
                   batchVars, task, probe>>

\* one store call of a ledger function of process c
LedgerStep(c) ==
    \/ init_get(c)
    \/ init_set(c)
    \/ gut_get(c)
    \/ use_get(c)
    \/ use_get2(c)
    \/ use_update(c)
    \/ use_add(c)

\* ------------------------------------------------------------------------
\* Requests and responses
\* ------------------------------------------------------------------------
EmptyResults == [selected |-> <<>>, rejected |-> <<>>, considered |-> <<>>]

\* stored and logged record the ledger as it was when the request arrived;
\* debits counts the calls of use_tokens the request has made
NoReq ==
    [kind |-> "none", n |-> 0, user_id |-> FALSE, jd |-> FALSE, jd_file |-> FALSE,
     jd_tmp |-> "none", debits |-> 0,
     stored |-> NoBalance, logged |-> 0]

NoResp ==
    [status |-> 0, detail |-> "", data |-> EmptyResults, tokens_used |-> 0,
     total |-> 0, debit_ok |-> TRUE, bal |-> NoBalance]

\* HTTPException(status_code, detail) leaving a handler
HttpError(status, detail) == [NoResp EXCEPT !.status = status, !.detail = detail]

\* lines 1099-1100: process_resumes catches every Exception, HTTPException
\* included, and raises status 500 with the message of what it caught
WrapError(status, detail) == HttpError(500, detail)

\* ---- /tokens/initialize/{user_id} and /tokens/{user_id} ----
initialize_user_tokens_endpoint(c) ==
    /\ hpc[c] = "idle"
    /\ served' = [served EXCEPT ![c] = @ + 1]
    /\ req' = [req EXCEPT ![c] = [NoReq EXCEPT !.kind = "initialize", !.user_id = TRUE]]
    /\ call' = [call EXCEPT ![c] = EnterInit([IdleCall EXCEPT !.fn = "init"], "top")]
    /\ hpc' = [hpc EXCEPT ![c] = "ep_init"]
    /\ UNCHANGED <<moduleFlags, sideVars, ledgerVars, resp, batchVars, task, probe>>

get_user_token_balance(c) ==
    /\ hpc[c] = "idle"
    /\ served' = [served EXCEPT ![c] = @ + 1]
    /\ req' = [req EXCEPT ![c] = [NoReq EXCEPT !.kind = "balance", !.user_id = TRUE]]
    /\ call' = [call EXCEPT ![c] = EnterGet(IdleCall)]
    /\ hpc' = [hpc EXCEPT ![c] = "ep_get"]
    /\ UNCHANGED <<moduleFlags, sideVars, ledgerVars, resp, batchVars, task, probe>>

endpoint_return(c) ==
    /\ hpc[c] \in {"ep_init", "ep_get"}
    /\ call[c].pc = "ret"
    /\ resp' = [resp EXCEPT ![c] =
                  IF hpc[c] = "ep_get"
                  THEN [NoResp EXCEPT !.status = 200, !.bal = call[c].bal]
                  ELSE IF call[c].ok
                       THEN [NoResp EXCEPT !.status = 200,
                                           !.detail = "Tokens initialized successfully"]
                       ELSE HttpError(500, "Failed to initialize tokens")]
    /\ hpc' = [hpc EXCEPT ![c] = "idle"]
    /\ call' = [call EXCEPT ![c] = IdleCall]
    /\ UNCHANGED <<moduleFlags, sideVars, ledgerVars, req, served, batchVars, task, probe>>

\* ---- /tokens/purchase ----
token_packages == {"standard"}

purchase_tokens(c, token_package) ==
    /\ hpc[c] = "idle"
    /\ served' = [served EXCEPT ![c] = @ + 1]
    /\ req' = [req EXCEPT ![c] = [NoReq EXCEPT !.kind = "purchase", !.user_id = TRUE,
                                               !.stored = user_tokens]]
    /\ IF token_package \notin token_packages
       THEN /\ resp' = [resp EXCEPT ![c] = HttpError(400, "Invalid token package")]
            /\ UNCHANGED hpc
       ELSE IF ~FIREBASE_AVAILABLE
       THEN /\ resp' = [resp EXCEPT ![c] = HttpError(500, "Firebase service not available")]
            /\ UNCHANGED hpc
       ELSE /\ hpc' = [hpc EXCEPT ![c] = "buy_get"]
            /\ UNCHANGED resp
    /\ UNCHANGED <<moduleFlags, sideVars, ledgerVars, call, batchVars, task, probe>>

PurchaseFailed(c) ==
    /\ resp' = [resp EXCEPT ![c] = HttpError(500, "Purchase failed")]
    /\ hpc' = [hpc EXCEPT ![c] = "idle"]
    /\ UNCHANGED purchased

PurchaseDone(c) ==
    /\ resp' = [resp EXCEPT ![c] = [NoResp EXCEPT !.status = 200,
                                                  !.total = PackageTokens]]
    /\ hpc' = [hpc EXCEPT ![c] = "idle"]
    /\ purchased' = purchased + 1

purchase_get(c) ==
    /\ hpc[c] = "buy_get"
    /\ \E raises \in BOOLEAN :
         IF raises
         THEN PurchaseFailed(c) /\ UNCHANGED call
         ELSE /\ hpc' = [hpc EXCEPT ![c] =
                           IF user_tokens.exists THEN "buy_update" ELSE "buy_set"]
              /\ call' = [call EXCEPT ![c] = [IdleCall EXCEPT !.snap = user_tokens]]
              /\ UNCHANGED <<resp, purchased>>
    /\ UNCHANGED <<moduleFlags, mail, resumeData, storeResp, ledgerVars, req,
                   served, batchVars, task, probe>>

purchase_update(c) ==
    /\ hpc[c] = "buy_update"
    /\ \E raises \in BOOLEAN :
         IF raises
         THEN PurchaseFailed(c) /\ UNCHANGED user_tokens
         ELSE /\ user_tokens' =
                   [user_tokens EXCEPT !.tokens = call[c].snap.tokens + PackageTokens]
              /\ PurchaseDone(c)
    /\ call' = [call EXCEPT ![c] = IdleCall]
    /\ UNCHANGED <<moduleFlags, mail, resumeData, storeResp, token_usage, req,
                   served, batchVars, task, probe>>

\* a first purchase that creates the document without the free grant
purchase_set_nogrant(c) ==
    /\ hpc[c] = "buy_set"
    /\ \E raises \in BOOLEAN :
         IF raises
         THEN PurchaseFailed(c) /\ UNCHANGED user_tokens
         ELSE /\ user_tokens' = Balance(PackageTokens, 0)
              /\ PurchaseDone(c)
    /\ call' = [call EXCEPT ![c] = IdleCall]
    /\ UNCHANGED <<moduleFlags, mail, resumeData, storeResp, token_usage, req,
                   served, batchVars, task, probe>>

purchase_set(c) ==
    /\ hpc[c] = "buy_set"
    /\ \E raises \in BOOLEAN :
         IF raises
         THEN PurchaseFailed(c) /\ UNCHANGED user_tokens
         ELSE /\ user_tokens' = Balance(InitialGrant + PackageTokens, 0)
              /\ PurchaseDone(c)
    /\ call' = [call EXCEPT ![c] = IdleCall]
    /\ UNCHANGED <<moduleFlags, mail, resumeData, storeResp, token_usage, req,
                   served, batchVars, task, probe>>

\* ------------------------------------------------------------------------
\* Scorer and categorizer
\* ------------------------------------------------------------------------
\* what the classifier call does: a JSON object with a numeric score, an
\* answer that is not JSON, an exception (network, timeout), JSON that is
\* not an object, an object whose score float() rejects, an object without
\* any of the four keys
Json(s) ==
    [kind |-> "json", score |-> s, explanation |-> "strong match",
     strengths |-> <<"python">>, weaknesses |-> <<>>]

Unparsable ==
    [kind |-> "unparsable", score |-> 0, explanation |-> "",
     strengths |-> <<>>, weaknesses |-> <<>>]

NoResponse ==
    [kind |-> "none", score |-> 0, explanation |-> "",
     strengths |-> <<>>, weaknesses |-> <<>>]

CallRaises ==
    [kind |-> "raise", score |-> 0, explanation |-> "",
     strengths |-> <<>>, weaknesses |-> <<>>]

NotAnObject ==
    [kind |-> "notobject", score |-> 0, explanation |-> "",
     strengths |-> <<>>, weaknesses |-> <<>>]

BadScore ==
    [kind |-> "badscore", score |-> 0, explanation |-> "strong match",
     strengths |-> <<"python">>, weaknesses |-> <<>>]

EmptyObject ==
    [kind |-> "emptyobject", score |-> 0, explanation |-> "",
     strengths |-> <<>>, weaknesses |-> <<>>]

\* a scorer that answers every failure with the parse-failure default
analyze_resume_async_onedefault(r) ==
    IF r.kind = "json"
    THEN [score |-> r.score, explanation |-> r.explanation,
          strengths |-> r.strengths, weaknesses |-> r.weaknesses]
    ELSE [score |-> 50, explanation |-> "Unable to parse detailed analysis",
          strengths |-> <<>>, weaknesses |-> <<>>]

\* gpt_service.analyze_resume_async: never raises
analyze_resume_async(r) ==
    CASE r.kind = "json" ->
           [score |-> r.score, explanation |-> r.explanation,
            strengths |-> r.strengths, weaknesses |-> r.weaknesses]
      [] r.kind = "emptyobject" ->
           [score |-> 0, explanation |-> "No explanation provided",
            strengths |-> <<>>, weaknesses |-> <<>>]
      [] r.kind = "unparsable" ->
           [score |-> 50, explanation |-> "Unable to parse detailed analysis",
            strengths |-> <<>>, weaknesses |-> <<>>]
      [] OTHER ->
           [score |-> 0, explanation |-> "Error occurred during analysis",
            strengths |-> <<>>, weaknesses |-> <<>>]

\* main.analyze_resume_with_gpt, the synchronous scorer: the inner try
\* catches JSONDecodeError, the outer one everything else
analyze_resume_with_gpt(r) ==
    CASE r.kind = "json" ->
           [score |-> r.score, explanation |-> r.explanation,
            strengths |-> r.strengths, weaknesses |-> r.weaknesses]
      [] r.kind = "emptyobject" ->
           [score |-> 0, explanation |-> "No explanation provided",
            strengths |-> <<>>, weaknesses |-> <<>>]
      [] r.kind = "unparsable" ->
           [score |-> 50, explanation |-> "Unable to parse detailed analysis",
            strengths |-> <<>>, weaknesses |-> <<>>]
      [] OTHER ->
           [score |-> 0, explanation |-> "Error occurred during analysis",
            strengths |-> <<>>, weaknesses |-> <<>>]

\* thresholds exclusive on the lower bound
categorize_resume_exclusive(score) ==
    IF score > 70 THEN "selected"
    ELSE IF score > 40 THEN "considered"
    ELSE "rejected"

\* main.categorize_resume
categorize_resume(score) ==
    IF score >= 70 THEN "selected"
    ELSE IF score >= 40 THEN "considered"
    ELSE "rejected"

\* resume_tasks.categorize_resume
tasks_categorize_resume(score) ==
    IF score >= 70 THEN "selected"
    ELSE IF score >= 40 THEN "considered"
    ELSE "rejected"

\* ------------------------------------------------------------------------
\* Text: a str is a sequence of one-character strings
\* ------------------------------------------------------------------------
LowerLetters ==
    <<"a", "b", "c", "d", "e", "f", "g", "h", "i", "j", "k", "l", "m",
      "n", "o", "p", "q", "r", "s", "t", "u", "v", "w", "x", "y", "z">>

UpperLetters ==
    <<"A", "B", "C", "D", "E", "F", "G", "H", "I", "J", "K", "L", "M",
      "N", "O", "P", "Q", "R", "S", "T", "U", "V", "W", "X", "Y", "Z">>

Range(s) == {s[i] : i \in DOMAIN s}

Lowercase == Range(LowerLetters)

Uppercase == Range(UpperLetters)

Letters == Lowercase \cup Uppercase

Digits == {"0", "1", "2", "3", "4", "5", "6", "7", "8", "9"}

Alnum == Letters \cup Digits

\* \w and \s of re, over the characters the texts are made of
WordChars == Alnum \cup {"_"}

Whitespace == {" ", "\t", "\n"}

IndexOf(seq, ch) == CHOOSE i \in DOMAIN seq : seq[i] = ch

char_lower(ch) ==
    IF ch \in Uppercase THEN LowerLetters[IndexOf(UpperLetters, ch)] ELSE ch

char_upper(ch) ==
    IF ch \in Lowercase THEN UpperLetters[IndexOf(LowerLetters, ch)] ELSE ch

\* str.lower, str.title, str.strip
str_lower(s) == [i \in DOMAIN s |-> char_lower(s[i])]

str_title(s) ==
    [i \in DOMAIN s |->
        IF i > 1 /\ s[i - 1] \in Letters THEN char_lower(s[i]) ELSE char_upper(s[i])]

Min(a, b) == IF a < b THEN a ELSE b

SetMin(S) == CHOOSE x \in S : \A y \in S : x <= y

SetMax(S) == CHOOSE x \in S : \A y \in S : x >= y

str_strip_chars(s, chars) ==
    LET keep == {i \in DOMAIN s : s[i] \notin chars}
    IN IF keep = {} THEN <<>> ELSE SubSeq(s, SetMin(keep), SetMax(keep))

str_strip(s) == str_strip_chars(s, Whitespace)

\* str.split(): the maximal runs of characters that are not whitespace
RECURSIVE str_split(_)
str_split(s) ==
    LET starts == {i \in DOMAIN s : s[i] \notin Whitespace}
    IN IF starts = {} THEN <<>>
       ELSE LET b == SetMin(starts)
                stops == {i \in b..Len(s) : s[i] \in Whitespace}
                e == IF stops = {} THEN Len(s) ELSE SetMin(stops) - 1
            IN <<SubSeq(s, b, e)>> \o str_split(SubSeq(s, e + 1, Len(s)))

\* the str of a sequence of characters
RECURSIVE Str(_)
Str(s) == IF s = <<>> THEN "" ELSE Head(s) \o Str(Tail(s))

Unknown == <<"U", "n", "k", "n", "o", "w", "n">>

\* ------------------------------------------------------------------------
\* extract_email_from_text
\* ------------------------------------------------------------------------
\* the character classes of email_pattern
LocalChars == Alnum \cup {".", "_", "%", "-"}

DomainChars == Alnum \cup {".", "-"}

\* \b before text[s], a word character
BoundaryBefore(text, s) == s = 1 \/ text[s - 1] \notin WordChars

\* \b after text[e], a word character
BoundaryAfter(text, e) == e = Len(text) \/ text[e + 1] \notin WordChars

\* the positions of "@" that end a local part starting at s:
\* [A-Za-z0-9]([A-Za-z0-9._%-]*[A-Za-z0-9])?@
LocalEnds(text, s) ==
    {at \in (s + 1)..Len(text) :
        /\ text[at] = "@"
        /\ \A i \in (s + 1)..(at - 1) : text[i] \in LocalChars
        /\ text[at - 1] \in Alnum}

\* [A-Za-z0-9]([A-Za-z0-9.-]*[A-Za-z0-9])?\.[A-Za-z]{2,}\b after the "@"
DomainMatches(text, at) ==
    /\ at + 1 <= Len(text)
    /\ text[at + 1] \in Alnum
    /\ \E dot \in (at + 2)..Len(text), e \in (at + 4)..Len(text) :
         /\ e >= dot + 2
         /\ \A i \in (at + 2)..(dot - 1) : text[i] \in DomainChars
         /\ text[dot - 1] \in Alnum
         /\ text[dot] = "."
         /\ \A i \in (dot + 1)..e : text[i] \in Letters
         /\ BoundaryAfter(text, e)

\* the positions where email_pattern matches
EmailStarts(text) ==
    {s \in DOMAIN text :
        /\ text[s] \in Alnum
        /\ BoundaryBefore(text, s)
        /\ \E at \in LocalEnds(text, s) : DomainMatches(text, at)}

\* re.findall with a pattern of two groups returns the pairs of groups, and
\* emails[0][0] is the first group of the first match: the local part
\* without its first character
FirstGroup(text, s) ==
    LET at == CHOOSE a \in LocalEnds(text, s) : TRUE
    IN SubSeq(text, s + 1, at - 1)

\* the words the fallback loop accepts
EmailLike(word) ==
    /\ "@" \in Range(word)
    /\ Cardinality({i \in DOMAIN word : word[i] = "@"}) = 1
    /\ \E i, j \in DOMAIN word : i < j /\ word[i] = "@" /\ word[j] = "."

StripChars == {".", ",", ";", ":", "(", ")", "[", "]", "{", "}", "\"", "'"}

extract_email_from_text(text) ==
    IF EmailStarts(text) # {}
    THEN FirstGroup(text, SetMin(EmailStarts(text)))
    ELSE LET words == str_split(text)
             hits == {k \in DOMAIN words : EmailLike(words[k])}
         IN IF hits = {} THEN <<>>
            ELSE str_strip_chars(words[SetMin(hits)], StripChars)

\* ------------------------------------------------------------------------
\* extract_phone_from_text
\* ------------------------------------------------------------------------
\* a phone pattern is a sequence of greedy elements: a character class
\* repeated min to max times
El(set, min, max) == [set |-> set, min |-> min, max |-> max]

Separators == {"-", "."} \cup Whitespace

Opt(set) == El(set, 0, 1)

phone_patterns ==
    << <<Opt({"+"}), Opt({"1"}), Opt(Separators), Opt({"("}), El(Digits, 3, 3),
         Opt({")"}), Opt(Separators), El(Digits, 3, 3), Opt(Separators),
         El(Digits, 4, 4)>>,
       <<Opt({"+"}), El(Digits, 1, 4), Opt(Separators), El(Digits, 3, 4),
         Opt(Separators), El(Digits, 3, 4), Opt(Separators), El(Digits, 3, 4)>>,
       <<Opt({"("}), El(Digits, 3, 3), Opt({")"}), Opt(Separators),
         El(Digits, 3, 3), Opt(Separators), El(Digits, 4, 4)>>,
       <<Opt({"+"}), El(Digits, 10, 15)>> >>

\* how many characters from pos on an element can take at most
RunLen(text, pos, el) ==
    SetMax({n \in 0..el.max :
              /\ pos + n - 1 <= Len(text)
              /\ \A i \in pos..(pos + n - 1) : text[i] \in el.set})

\* the last position of the match of pat[k..] at pos, found as re finds it:
\* each element takes as much as it can and gives back one character at a
\* time when the rest fails; -1 when there is no match
RECURSIVE MatchFrom(_, _, _, _), TryCount(_, _, _, _, _)
MatchFrom(text, pos, pat, k) ==
    IF k > Len(pat) THEN pos - 1
    ELSE TryCount(text, pos, pat, k, RunLen(text, pos, pat[k]))

TryCount(text, pos, pat, k, n) ==
    IF n < pat[k].min THEN 0 - 1
    ELSE LET e == MatchFrom(text, pos + n, pat, k + 1)
         IN IF e # 0 - 1 THEN e ELSE TryCount(text, pos, pat, k, n - 1)

\* re.findall(pattern, text) for a pattern without groups
RECURSIVE FindAll(_, _, _)
FindAll(text, pat, pos) ==
    IF pos > Len(text) THEN <<>>
    ELSE LET e == MatchFrom(text, pos, pat, 1)
         IN IF e # 0 - 1
            THEN <<SubSeq(text, pos, e)>> \o FindAll(text, pat, e + 1)
            ELSE FindAll(text, pat, pos + 1)

IsDigit(ch) == ch \in Digits

IsPhoneChar(ch) == ch \in Digits \cup {"+"}

\* re.sub(r'[^\d+]', '', phone) and the number of its digits
clean_phone(phone) == SelectSeq(phone, IsPhoneChar)

DigitCount(phone) == Len(SelectSeq(phone, IsDigit))

ValidPhone(phone) == 7 <= DigitCount(phone) /\ DigitCount(phone) <= 15

RECURSIVE Flatten(_)
Flatten(seqs) == IF seqs = <<>> THEN <<>> ELSE Head(seqs) \o Flatten(Tail(seqs))

found_phones(text) ==
    Flatten([k \in DOMAIN phone_patterns |->
               SelectSeq(FindAll(text, phone_patterns[k], 1), ValidPhone)])

\* str.split('\n')
RECURSIVE SplitLines(_)
SplitLines(text) ==
    LET nl == {i \in DOMAIN text : text[i] = "\n"}
    IN IF nl = {} THEN <<text>>
       ELSE <<SubSeq(text, 1, SetMin(nl) - 1)>>
            \o SplitLines(SubSeq(text, SetMin(nl) + 1, Len(text)))

\* sub in s
Contains(s, sub) ==
    \E i \in 1..(Len(s) - Len(sub) + 1) : SubSeq(s, i, i + Len(sub) - 1) = sub

phone_labels ==
    {<<"p", "h", "o", "n", "e", ":">>, <<"m", "o", "b", "i", "l", "e", ":">>,
     <<"t", "e", "l", ":">>, <<"c", "o", "n", "t", "a", "c", "t", ":">>}

\* the digits after the first colon of a labelled line
LabelledDigits(line) ==
    LET low == str_lower(str_strip(line))
        colon == SetMin({i \in DOMAIN low : low[i] = ":"})
    IN SelectSeq(SubSeq(low, colon + 1, Len(low)), IsDigit)

extract_phone_from_text(text) ==
    IF found_phones(text) # <<>> THEN found_phones(text)[1]
    ELSE LET lines == SplitLines(text)
             hits == {k \in DOMAIN lines :
                        /\ \E label \in phone_labels :
                             Contains(str_lower(str_strip(lines[k])), label)
                        /\ 7 <= Len(LabelledDigits(lines[k]))
                        /\ Len(LabelledDigits(lines[k])) <= 15}
         IN IF hits = {} THEN <<>> ELSE LabelledDigits(lines[SetMin(hits)])

\* ------------------------------------------------------------------------
\* extract_name_with_patterns, extract_name_from_text
\* ------------------------------------------------------------------------
skip_words ==
    {<<"r", "e", "s", "u", "m", "e">>,
     <<"c", "v">>,
     <<"c", "u", "r", "r", "i", "c", "u", "l", "u", "m">>,
     <<"v", "i", "t", "a", "e">>,
     <<"c", "o", "n", "t", "a", "c", "t">>,
     <<"p", "e", "r", "s", "o", "n", "a", "l">>,
     <<"i", "n", "f", "o", "r", "m", "a", "t", "i", "o", "n">>,
     <<"p", "r", "o", "f", "i", "l", "e">>,
     <<"o", "b", "j", "e", "c", "t", "i", "v", "e">>}

name_keywords ==
    {<<"p", "h", "o", "n", "e">>,
     <<"e", "m", "a", "i", "l">>,
     <<"a", "d", "d", "r", "e", "s", "s">>,
     <<"l", "i", "n", "k", "e", "d", "i", "n">>,
     <<"g", "i", "t", "h", "u", "b">>,
     <<"p", "o", "r", "t", "f", "o", "l", "i", "o">>}

name_label == <<"n", "a", "m", "e", ":">>

\* ' '.join(words)
RECURSIVE Join(_)
Join(words) ==
    IF Len(words) <= 1 THEN Flatten(words)
    ELSE Head(words) \o <<" ">> \o Join(Tail(words))

\* str.capitalize
capitalize(word) ==
    [i \in DOMAIN word |-> IF i = 1 THEN char_upper(word[i]) ELSE char_lower(word[i])]

\* word[0].isupper() and word.isalpha()
IsNameWord(word) == word[1] \in Uppercase /\ \A i \in DOMAIN word : word[i] \in Letters

\* the test the first loop applies to one line
IsNameLine(line) ==
    LET words == str_split(line)
    IN /\ str_strip(line) # <<>>
       /\ ~ \E w \in skip_words : Contains(str_lower(str_strip(line)), w)
       /\ 2 <= Len(words) /\ Len(words) <= 4
       /\ \A k \in DOMAIN words : IsNameWord(words[k])
       /\ ~ \E k \in DOMAIN words : str_lower(words[k]) \in name_keywords

\* the words after the first colon of a line
AfterColon(line) ==
    LET low == str_lower(str_strip(line))
        colon == SetMin({i \in DOMAIN low : low[i] = ":"})
    IN str_split(SubSeq(low, colon + 1, Len(low)))

IsLabelledName(line) ==
    /\ Contains(str_lower(str_strip(line)), name_label)
    /\ 2 <= Len(AfterColon(line)) /\ Len(AfterColon(line)) <= 4

\* the slice bound of lines[:10]
NameLineLimit == 10

\* a variant whose limit counts the lines that are not blank
extract_name_with_patterns_nonempty(text) ==
    LET lines == SplitLines(text)
        nonempty == SelectSeq(lines, LAMBDA l : str_strip(l) # <<>>)
        first == SubSeq(nonempty, 1, Min(NameLineLimit, Len(nonempty)))
        hits == {k \in DOMAIN first : IsNameLine(first[k])}
        labelled == {k \in DOMAIN lines : IsLabelledName(lines[k])}
    IN IF hits # {} THEN Join(str_split(first[SetMin(hits)]))
       ELSE IF labelled # {}
       THEN LET words == AfterColon(lines[SetMin(labelled)])
            IN Join([k \in DOMAIN words |-> capitalize(words[k])])
       ELSE Unknown

\* lines[:10] is the first ten lines of the text, blank ones included
extract_name_with_patterns(text) ==
    LET lines == SplitLines(text)
        first == SubSeq(lines, 1, Min(NameLineLimit, Len(lines)))
        hits == {k \in DOMAIN first : IsNameLine(first[k])}
        labelled == {k \in DOMAIN lines : IsLabelledName(lines[k])}
    IN IF hits # {} THEN Join(str_split(first[SetMin(hits)]))
       ELSE IF labelled # {}
       THEN LET words == AfterColon(lines[SetMin(labelled)])
            IN Join([k \in DOMAIN words |-> capitalize(words[k])])
       ELSE Unknown

\* what the name request to the classifier does: an answer or an exception
NameAnswer(content) == [raises |-> FALSE, content |-> content]

NameRaises == [raises |-> TRUE, content |-> <<>>]

extract_name_from_text(text, answer) ==
    LET name == extract_name_with_patterns(text)
    IN IF name # <<>> /\ name # Unknown THEN name
       ELSE IF answer.raises THEN Unknown
       ELSE IF str_strip(answer.content) # <<>> /\ str_strip(answer.content) # Unknown
       THEN str_strip(answer.content)
       ELSE Unknown

\* ------------------------------------------------------------------------
\* validate_extracted_data
\* ------------------------------------------------------------------------
\* re.match(r'^[a-zA-Z\s]+$', name)
NameRuleMatches(name) ==
    name # <<>> /\ \A i \in DOMAIN name : name[i] \in Letters \cup Whitespace

\* re.match(r'^[a-zA-Z0-9._%+-]+@[a-zA-Z0-9.-]+\.[a-zA-Z]{2,}$', email); the
\* $ also matches before a final newline
EmailRuleMatches(email) ==
    LET n == IF email # <<>> /\ email[Len(email)] = "\n"
             THEN Len(email) - 1 ELSE Len(email)
    IN \E at \in 2..n, dot \in 4..n :
         /\ dot >= at + 2 /\ n >= dot + 2
         /\ \A i \in 1..(at - 1) : email[i] \in Alnum \cup {".", "_", "%", "+", "-"}
         /\ email[at] = "@"
         /\ \A i \in (at + 1)..(dot - 1) : email[i] \in DomainChars
         /\ email[dot] = "."
         /\ \A i \in (dot + 1)..n : email[i] \in Letters

\* a validator that measures the phone before it is cleaned
validate_extracted_data_rawlength(name, email, phone) ==
    [name |-> IF name # <<>> /\ name # Unknown
              THEN IF NameRuleMatches(name) THEN str_title(str_strip(name))
                   ELSE Unknown
              ELSE name,
     email |-> IF email # <<>>
               THEN IF EmailRuleMatches(email) THEN str_lower(str_strip(email))
                    ELSE <<>>
               ELSE email,
     phone |-> IF phone # <<>>
               THEN IF 7 <= Len(phone) /\ Len(phone) <= 15 THEN clean_phone(phone)
                    ELSE <<>>
               ELSE phone]

validate_extracted_data(name, email, phone) ==
    [name |-> IF name # <<>> /\ name # Unknown
              THEN IF NameRuleMatches(name) THEN str_title(str_strip(name))
                   ELSE Unknown
              ELSE name,
     email |-> IF email # <<>>
               THEN IF EmailRuleMatches(email) THEN str_lower(str_strip(email))
                    ELSE <<>>
               ELSE email,
     phone |-> IF phone # <<>>
               THEN IF ValidPhone(clean_phone(phone)) THEN clean_phone(phone)
                    ELSE <<>>
               ELSE phone]

\* ------------------------------------------------------------------------
\* process_single_resume
\* ------------------------------------------------------------------------
\* lines 857-863: the three extractions and the validator
ValidatedOf(text, answer) ==
    validate_extracted_data(extract_name_from_text(text, answer),
                            extract_email_from_text(text),
                            extract_phone_from_text(text))

\* the text of the uploaded sample document
sample_text ==
    <<"J", "a", "n", "e", " ", "Q", " ", "P", "u", "b", "l", "i", "c", "\n",
      "E", "m", "a", "i", "l", ":", " ", "j", "a", "n", "e", "@", "x", ".", "c", "o", "m", "\n",
      "P", "h", "o", "n", "e", ":", " ", "4", "1", "5", "-", "5", "5", "5", "-", "0", "1", "0", "0", "\n">>

\* the validated fields as the strings of a record
FieldStrings(v) == [name |-> Str(v.name), email |-> Str(v.email), phone |-> Str(v.phone)]

\* the validated fields of the uploaded sample document: the value of
\* FieldStrings(ValidatedOf(sample_text, NameRaises)), which InitProbe compares
\* with this record
validated_data == [name |-> "Jane Q Public", email |-> "", phone |-> "4155550100"]

NoData ==
    [id |-> 0 - 1, name |-> "", email |-> "", phone |-> "", s3_url |-> "None",
     fileName |-> 0, score |-> 0, category |-> "",
     explanation |-> [text |-> "", err |-> ""],
     strengths |-> <<>>, weaknesses |-> <<>>]

\* resume_data of lines 902-915
resume_data(index, s3_url, analysis, category) ==
    [id |-> index, name |-> validated_data.name, email |-> validated_data.email,
     phone |-> validated_data.phone, s3_url |-> s3_url, fileName |-> index,
     score |-> analysis.score, category |-> category,
     explanation |-> [text |-> analysis.explanation, err |-> ""],
     strengths |-> analysis.strengths, weaknesses |-> analysis.weaknesses]

\* a fallback entry that keeps the fields extracted before the failure
fallback_data_keepfields(index, e) ==
    [id |-> index, name |-> validated_data.name, email |-> validated_data.email,
     phone |-> validated_data.phone,
     s3_url |-> "None", fileName |-> index, score |-> 0, category |-> "rejected",
     explanation |-> [text |-> "Error processing resume: ", err |-> e],
     strengths |-> <<>>, weaknesses |-> <<>>]

\* the fallback entry of lines 945-961 and of resume_tasks lines 300-312
fallback_data(index, e) ==
    [id |-> index, name |-> "Unknown", email |-> "", phone |-> "",
     s3_url |-> "None", fileName |-> index, score |-> 0, category |-> "rejected",
     explanation |-> [text |-> "Error processing resume: ", err |-> e],
     strengths |-> <<>>, weaknesses |-> <<>>]

NewDoc ==
    [pc |-> "queued", kind |-> "none", success |-> FALSE, category |-> "",
     data |-> NoData, s3_url |-> "None", steps |-> <<>>, tmp |-> "none",
     raised |-> "none", response |-> NoResponse, rank |-> 0]

\* process_single_resume without its except clause: the exception reaches
\* asyncio.gather and becomes the task's entry of results_list
Fallback_propagates(d, index, e) ==
    [d EXCEPT !.pc = "done", !.kind = "exception", !.raised = e]

\* what process_single_resume returns from its except clause, with the
\* finally clause applied: the temporary file is unlinked only when
\* temp_file_path was assigned, which happens after the write
Fallback(d, index, e) ==
    [d EXCEPT !.pc = "done", !.kind = "returned", !.success = FALSE,
              !.category = "rejected", !.data = fallback_data(index, e),
              !.raised = e,
              !.tmp = IF e = "tempfile" THEN "leaked" ELSE d.tmp]

\* a pipeline that starts the scoring call before it uploads
BeforeScoring_scorefirst(d, user_id, s3ok) ==
    [d EXCEPT !.pc = "score",
              !.tmp = "created",
              !.s3_url = IF S3_AVAILABLE /\ user_id /\ s3ok THEN "url" ELSE "None",
              !.steps = <<"extract", "validate", "score">>
                        \o (IF S3_AVAILABLE /\ user_id THEN <<"upload">> ELSE <<>>)]

\* lines 840-893 up to the await of the scoring call
BeforeScoring(d, user_id, s3ok) ==
    [d EXCEPT !.pc = "score",
              !.tmp = "created",
              !.s3_url = IF S3_AVAILABLE /\ user_id /\ s3ok THEN "url" ELSE "None",
              !.steps = <<"extract", "validate">>
                        \o (IF S3_AVAILABLE /\ user_id THEN <<"upload">> ELSE <<>>)
                        \o <<"score">>]

\* lines 898-937 and the finally clause
AfterScoring(d, index, user_id, r) ==
    LET analysis == analyze_resume_async(r)
        category == categorize_resume(analysis.score)
    IN [d EXCEPT !.pc = "done", !.kind = "returned", !.success = TRUE,
                 !.category = category, !.response = r,
                 !.data = resume_data(index, d.s3_url, analysis, category),
                 !.tmp = "deleted",
                 !.steps = d.steps \o <<"categorize">>
                           \o (IF user_id /\ FIREBASE_AVAILABLE
                               THEN <<"persist">> ELSE <<>>)]

\* a variant that files every persisted record under rejected
batch_record_rejected(r) ==
    LET analysis == analyze_resume_async(r)
    IN [score |-> analysis.score, category |-> "rejected",
        origin |-> "batch", updated |-> FALSE]

\* lines 898-899 and 920-933: the document process_single_resume persists
batch_record(r) ==
    LET analysis == analyze_resume_async(r)
        score == analysis.score
        category == categorize_resume(score)
    IN [score |-> score, category |-> category,
        origin |-> "batch", updated |-> FALSE]

\* resume_tasks lines 236-237 and 257-270: the document the task persists
task_record(r) ==
    LET analysis == analyze_resume_async(r)
        score == analysis.score
        category == tasks_categorize_resume(score)
    IN [score |-> score, category |-> category,
        origin |-> "batch", updated |-> FALSE]

\* lines 917-935 and resume_tasks lines 255-281: with an owner and the store
\* configured the record is added to the collection; an add that raises is
\* caught and leaves the collection as it was
Persisted(collection, user_id, record, raises) ==
    IF user_id /\ FIREBASE_AVAILABLE /\ ~raises
    THEN Append(collection, record)
    ELSE collection

\* the outcomes of the add: one when no add is made
AddOutcomes(user_id) ==
    IF user_id /\ FIREBASE_AVAILABLE THEN BOOLEAN ELSE {FALSE}

\* the position of the next task to finish among the tasks of the batch,
\* recorded in the runs that observe completion order (probe.fn = "order")
NextRank(c) ==
    IF probe.fn = "order"
    THEN Cardinality({j \in DOMAIN docs[c] : docs[c][j].pc = "done"}) + 1
    ELSE 0

\* async with semaphore: entry
acquire(c, i) ==
    /\ hpc[c] = "gather"
    /\ i \in DOMAIN docs[c]
    /\ docs[c][i].pc = "queued"
    /\ semaphore[c] > 0
    /\ semaphore' = [semaphore EXCEPT ![c] = @ - 1]
    /\ docs' = [docs EXCEPT ![c][i].pc = "read"]
    /\ UNCHANGED <<moduleFlags, sideVars, ledgerVars, hpc, req, call, resp, served, task, probe>>

\* await resume_file.read() returns or raises; the code up to the scoring
\* call runs without suspension
\* a pipeline whose exception path leaves the async with block without
\* releasing the semaphore
read_return_keepslot(c, i, ev) ==
    /\ hpc[c] = "gather"
    /\ i \in DOMAIN docs[c]
    /\ docs[c][i].pc = "read"
    /\ IF ev.raise # "none"
       THEN /\ docs' = [docs EXCEPT ![c][i] =
                             [Fallback(@, i - 1, ev.raise) EXCEPT !.rank = NextRank(c)]]
            /\ UNCHANGED semaphore
       ELSE /\ docs' = [docs EXCEPT ![c][i] = BeforeScoring(@, req[c].user_id, ev.s3ok)]
            /\ UNCHANGED semaphore
    /\ UNCHANGED <<moduleFlags, sideVars, ledgerVars, hpc, req, call, resp, served, task, probe>>

read_return(c, i, ev) ==
    /\ hpc[c] = "gather"
    /\ i \in DOMAIN docs[c]
    /\ docs[c][i].pc = "read"
    /\ IF ev.raise # "none"
       THEN /\ docs' = [docs EXCEPT ![c][i] =
                             [Fallback(@, i - 1, ev.raise) EXCEPT !.rank = NextRank(c)]]
            /\ semaphore' = [semaphore EXCEPT ![c] = @ + 1]
       ELSE /\ docs' = [docs EXCEPT ![c][i] = BeforeScoring(@, req[c].user_id, ev.s3ok)]
            /\ UNCHANGED semaphore
    /\ UNCHANGED <<moduleFlags, sideVars, ledgerVars, hpc, req, call, resp, served, task, probe>>

\* the scoring call completes; the rest of process_single_resume runs and
\* the semaphore is released
score_return(c, i, r) ==
    /\ hpc[c] = "gather"
    /\ i \in DOMAIN docs[c]
    /\ docs[c][i].pc = "score"
    /\ docs' = [docs EXCEPT ![c][i] =
                  [AfterScoring(@, i - 1, req[c].user_id, r) EXCEPT !.rank = NextRank(c)]]
    /\ \E raises \in AddOutcomes(req[c].user_id) :
         resumeData' = Persisted(resumeData, req[c].user_id, batch_record(r), raises)
    /\ semaphore' = [semaphore EXCEPT ![c] = @ + 1]
    /\ UNCHANGED <<moduleFlags, mail, storeResp, purchased, ledgerVars, hpc, req, call,
                   resp, served, task, probe>>

\* ------------------------------------------------------------------------
\* process_resumes (/process)
\* ------------------------------------------------------------------------
\* lines 1055-1070: results_list is in task order; an entry that is an
\* exception is skipped, a success goes to its category, anything else to
\* rejected
\* an aggregation that files every successful entry under selected
RECURSIVE Organize_selected(_, _, _)
Organize_selected(results_list, i, results) ==
    IF i > Len(results_list) THEN results
    ELSE LET result == results_list[i]
             bucket == IF result.success THEN "selected" ELSE "rejected"
         IN Organize_selected(results_list, i + 1,
                     IF result.kind = "exception" THEN results
                     ELSE [results EXCEPT ![bucket] = Append(@, result.data)])

\* an aggregation that puts each entry in front of its bucket
RECURSIVE Organize_prepend(_, _, _)
Organize_prepend(results_list, i, results) ==
    IF i > Len(results_list) THEN results
    ELSE LET result == results_list[i]
             bucket == IF result.success THEN result.category ELSE "rejected"
         IN Organize_prepend(results_list, i + 1,
                     IF result.kind = "exception" THEN results
                     ELSE [results EXCEPT ![bucket] = <<result.data>> \o @])

RECURSIVE Organize(_, _, _)
Organize(results_list, i, results) ==
    IF i > Len(results_list) THEN results
    ELSE LET result == results_list[i]
             bucket == IF result.success THEN result.category ELSE "rejected"
         IN Organize(results_list, i + 1,
                     IF result.kind = "exception" THEN results
                     ELSE [results EXCEPT ![bucket] = Append(@, result.data)])

Total(results) ==
    Len(results.selected) + Len(results.considered) + Len(results.rejected)

AllDone(c) == \A i \in DOMAIN docs[c] : docs[c][i].pc = "done"

\* lines 1029-1048: jd is final_job_description being non-empty; without a
\* job description the request is an error, otherwise the semaphore and the
\* tasks are made
StartGather(c, jd) ==
    IF ~jd
    THEN /\ resp' = [resp EXCEPT ![c] = WrapError(400, "No job description provided")]
         /\ hpc' = [hpc EXCEPT ![c] = "idle"]
         /\ UNCHANGED semaphore
    ELSE /\ resp' = [resp EXCEPT ![c] = NoResp]
         /\ hpc' = [hpc EXCEPT ![c] = "gather"]
         /\ semaphore' = [semaphore EXCEPT ![c] = SemaphoreLimit]

\* lines 992-998: with a job-description file the handler awaits the read of
\* the file; without one final_job_description is the text of the request
AfterPreflight(c, jd, jd_file) ==
    IF jd_file
    THEN /\ resp' = [resp EXCEPT ![c] = NoResp]
         /\ hpc' = [hpc EXCEPT ![c] = "jd_read"]
         /\ UNCHANGED semaphore
    ELSE StartGather(c, jd)

\* jd: the request has a text job description; jd_file: it has a
\* job-description file
process_resumes(c, n, user_id, jd, jd_file) ==
    /\ hpc[c] = "idle"
    /\ served' = [served EXCEPT ![c] = @ + 1]
    /\ req' = [req EXCEPT ![c] =
                 [kind |-> "process", n |-> n, user_id |-> user_id, jd |-> jd,
                  jd_file |-> jd_file, jd_tmp |-> "none",
                  debits |-> 0, stored |-> user_tokens,
                  logged |-> Len(token_usage)]]
    /\ docs' = [docs EXCEPT ![c] = [i \in 1..n |-> NewDoc]]
    /\ IF user_id
       THEN /\ call' = [call EXCEPT ![c] = EnterGet(IdleCall)]
            /\ hpc' = [hpc EXCEPT ![c] = "preflight"]
            /\ resp' = [resp EXCEPT ![c] = NoResp]
            /\ UNCHANGED semaphore
       ELSE /\ AfterPreflight(c, jd, jd_file)
            /\ call' = [call EXCEPT ![c] = IdleCall]
    /\ UNCHANGED <<moduleFlags, sideVars, ledgerVars, task, probe>>

\* what reading the job-description file does: it yields a text, it yields
\* an empty text, the read raises, the write of the temporary copy raises
JdFileEvents == {"text", "empty", "read", "write"}

\* lines 998-1048: await job_description_file.read() returns or raises.  The
\* temporary copy is unlinked by the finally clause of lines 1015-1018, which
\* a raising write does not reach; the text of the file replaces the text of
\* the request, and a failure falls back to the text of the request
job_description_file_return(c, ev) ==
    /\ hpc[c] = "jd_read"
    /\ req' = [req EXCEPT ![c].jd_tmp =
                 CASE ev = "read" -> "none"
                   [] ev = "write" -> "leaked"
                   [] OTHER -> "deleted"]
    /\ IF ev \in {"read", "write"} /\ ~req[c].jd
       THEN /\ resp' = [resp EXCEPT ![c] =
                          WrapError(400, "Failed to process job description file and no text job description provided")]
            /\ hpc' = [hpc EXCEPT ![c] = "idle"]
            /\ UNCHANGED semaphore
       ELSE StartGather(c, ev # "empty")
    /\ UNCHANGED <<moduleFlags, sideVars, ledgerVars, call, served, docs, task, probe>>

\* lines 983-990 once get_user_tokens has returned
preflight_check(c) ==
    /\ hpc[c] = "preflight"
    /\ call[c].pc = "ret"
    /\ IF call[c].bal.tokens < calculate_tokens_needed(req[c].n)
       THEN /\ resp' = [resp EXCEPT ![c] = WrapError(402, "Insufficient tokens")]
            /\ hpc' = [hpc EXCEPT ![c] = "idle"]
            /\ UNCHANGED semaphore
       ELSE AfterPreflight(c, req[c].jd, req[c].jd_file)
    /\ call' = [call EXCEPT ![c] = IdleCall]
    /\ UNCHANGED <<moduleFlags, sideVars, ledgerVars, req, served, docs, task, probe>>

\* asyncio.gather returns; lines 1055-1097
gather_return(c) ==
    /\ hpc[c] = "gather"
    /\ AllDone(c)
    /\ LET results == Organize(docs[c], 1, EmptyResults)
           tokens_used == calculate_tokens_needed(req[c].n)
       IN IF req[c].user_id
          THEN /\ call' = [call EXCEPT ![c] = EnterUse(IdleCall, tokens_used)]
               /\ hpc' = [hpc EXCEPT ![c] = "debit"]
               /\ resp' = [resp EXCEPT ![c] = [NoResp EXCEPT !.data = results]]
               /\ req' = [req EXCEPT ![c].debits = @ + 1]
          ELSE /\ resp' = [resp EXCEPT ![c] =
                             [NoResp EXCEPT !.status = 200, !.data = results,
                                            !.total = req[c].n]]
               /\ hpc' = [hpc EXCEPT ![c] = "idle"]
               /\ UNCHANGED <<call, req>>
    /\ UNCHANGED <<moduleFlags, sideVars, ledgerVars, served, batchVars, task, probe>>

\* use_tokens has returned: lines 1077-1097
process_return(c) ==
    /\ hpc[c] = "debit"
    /\ call[c].pc = "ret"
    /\ resp' = [resp EXCEPT ![c] =
                  [@ EXCEPT !.status = 200, !.total = req[c].n,
                            !.tokens_used = call[c].amount,
                            !.debit_ok = call[c].ok]]
    /\ hpc' = [hpc EXCEPT ![c] = "idle"]
    /\ call' = [call EXCEPT ![c] = IdleCall]
    /\ UNCHANGED <<moduleFlags, sideVars, ledgerVars, req, served, batchVars, task, probe>>

\* ------------------------------------------------------------------------
\* process_resume_batch (the background task): one document after another,
\* in chunks of batch_size whose results are merged after each chunk
\* ------------------------------------------------------------------------
NoTask ==
    [pc |-> "idle", total |-> 0, user_id |-> FALSE, processed |-> 0,
     batch_start |-> 0, next |-> 0, batch_results |-> <<>>,
     results |-> EmptyResults, events |-> <<>>, steps |-> <<>>]


RECURSIVE Merge(_, _, _)
Merge(batch_results, i, results) ==
    IF i > Len(batch_results) THEN results
    ELSE Merge(batch_results, i + 1,
               [results EXCEPT ![batch_results[i].category] =
                  Append(@, batch_results[i].data)])

\* lines 200-253 or the except clause of lines 295-313 for one document
TaskEntry(processed, ev, r) ==
    IF ev.raise # "none"
    THEN [category |-> "rejected", data |-> fallback_data(processed, ev.raise)]
    ELSE LET analysis == analyze_resume_async(r)
             category == tasks_categorize_resume(analysis.score)
             s3_url == IF S3_AVAILABLE /\ task.user_id /\ ev.s3ok THEN "url" ELSE "None"
         IN [category |-> category,
             data |-> resume_data(processed, s3_url, analysis, category)]

\* resume_tasks lines 200-285: the steps of one document of the task, which
\* runs them one after the other without yielding
TaskSteps(ev) ==
    IF ev.raise # "none" THEN <<>>
    ELSE BeforeScoring(NewDoc, task.user_id, ev.s3ok).steps \o <<"categorize">>
         \o (IF task.user_id /\ FIREBASE_AVAILABLE THEN <<"persist">> ELSE <<>>)

process_resume_batch(total, user_id) ==
    /\ task.pc = "idle"
    /\ task' = [NoTask EXCEPT !.pc = "run", !.total = total, !.user_id = user_id]
    /\ UNCHANGED <<moduleFlags, sideVars, ledgerVars, hpc, req, call, resp, served,
                   batchVars, probe>>

\* one iteration of the inner loop, with the add to collection resumeData of
\* a document that was scored; the last iteration of a chunk is followed by
\* the merge of lines 316-317 and, when documents remain, by the next
\* batch_start and an empty batch_results
task_document(ev, r) ==
    /\ task.pc = "run"
    /\ task.next < task.total
    /\ LET batch_end == Min(task.batch_start + batch_size, task.total)
           entries == Append(task.batch_results, TaskEntry(task.processed, ev, r))
           last == task.next + 1 = batch_end
           more == batch_end < task.total
       IN task' = [task EXCEPT
                     !.processed = @ + 1,
                     !.next = @ + 1,
                     !.events = Append(@, IF ev.raise # "none" THEN ev.raise
                                          ELSE r.kind),
                     !.steps = TaskSteps(ev),
                     !.batch_results = IF last /\ more THEN <<>> ELSE entries,
                     !.results = IF last THEN Merge(entries, 1, @) ELSE @,
                     !.batch_start = IF last /\ more THEN @ + batch_size ELSE @]
    /\ \E raises \in AddOutcomes(task.user_id /\ ev.raise = "none") :
         resumeData' = Persisted(resumeData, task.user_id /\ ev.raise = "none",
                                 task_record(r), raises)
    /\ UNCHANGED <<moduleFlags, mail, storeResp, purchased, ledgerVars, hpc, req, call,
                   resp, served, batchVars, probe>>

task_return ==
    /\ task.pc = "run"
    /\ task.next >= task.total
    /\ task' = [task EXCEPT !.pc = "returned"]
    /\ UNCHANGED <<moduleFlags, sideVars, ledgerVars, hpc, req, call, resp, served,
                   batchVars, probe>>

\* ------------------------------------------------------------------------
\* The categorizer applied to one score
\* ------------------------------------------------------------------------
NoAnalysis == [score |-> 0, explanation |-> "", strengths |-> <<>>, weaknesses |-> <<>>]

NoFields == [name |-> <<>>, email |-> <<>>, phone |-> <<>>]

NoProbe ==
    [fn |-> "none", arg |-> 0, main |-> "", tasks |-> "", response |-> NoResponse,
     analysis |-> NoAnalysis, analysis_sync |-> NoAnalysis,
     text |-> <<>>, email |-> <<>>, fields |-> NoFields, once |-> NoFields,
     twice |-> NoFields, name |-> <<>>, answer |-> NameRaises]

categorize(s) ==
    /\ probe' = [NoProbe EXCEPT !.fn = "categorize", !.arg = s,
                                !.main = categorize_resume(s),
                                !.tasks = tasks_categorize_resume(s)]
    /\ UNCHANGED <<moduleFlags, sideVars, ledgerVars, hpc, req, call, resp, served,
                   batchVars, task>>

\* the two scorers applied to one outcome of the classifier call
analyze(r) ==
    /\ probe' = [NoProbe EXCEPT !.fn = "analyze", !.response = r,
                                !.analysis = analyze_resume_async(r),
                                !.analysis_sync = analyze_resume_with_gpt(r)]
    /\ UNCHANGED <<moduleFlags, sideVars, ledgerVars, hpc, req, call, resp, served,
                   batchVars, task>>

\* lines 857-863 and 898-899 applied to one text, the name request of lines
\* 340-351 answering or raising as answer says and the classifier answering r
extract(text, answer, r) ==
    /\ probe' = [NoProbe EXCEPT !.fn = "extract", !.text = text,
                                !.answer = answer,
                                !.email = extract_email_from_text(text),
                                !.fields = ValidatedOf(text, answer),
                                !.response = r,
                                !.analysis = analyze_resume_async(r),
                                !.main = categorize_resume(analyze_resume_async(r).score)]
    /\ UNCHANGED <<moduleFlags, sideVars, ledgerVars, hpc, req, call, resp, served,
                   batchVars, task>>

\* the pattern step of name extraction applied to one text
extract_name(text) ==
    /\ probe' = [NoProbe EXCEPT !.fn = "name", !.text = text,
                                !.name = extract_name_with_patterns(text)]
    /\ UNCHANGED <<moduleFlags, sideVars, ledgerVars, hpc, req, call, resp, served,
                   batchVars, task>>

\* the validator applied to three fields, and to its own result
validate(name, email, phone) ==
    /\ probe' =
         LET once == validate_extracted_data(name, email, phone)
         IN [NoProbe EXCEPT !.fn = "validate",
                            !.fields = [name |-> name, email |-> email, phone |-> phone],
                            !.once = once,
                            !.twice = validate_extracted_data(once.name, once.email,
                                                              once.phone)]
    /\ UNCHANGED <<moduleFlags, sideVars, ledgerVars, hpc, req, call, resp, served,
                   batchVars, task>>

\* ------------------------------------------------------------------------
\* /send-emails and /send-personalized-emails
\* ------------------------------------------------------------------------
\* attempts lists the candidates a message was handed to the transport for
NoMail ==
    [pc |-> "idle", fn |-> "none", resumes |-> <<>>, i |-> 0, sent_count |-> 0,
     failed_emails |-> <<>>, attempts |-> <<>>, status |-> 0]

\* what generating and sending one message can do
SendOutcomes == {"sent", "SMTPAuthenticationError", "SMTPException", "Exception"}

\* lines 1173-1176 and 1226-1234: the configuration check and the counters
StartSending(fn, resumes, configured) ==
    /\ mail.pc = "idle"
    /\ mail.fn = "none"
    /\ mail' = IF configured
               THEN [NoMail EXCEPT !.fn = fn, !.pc = "loop", !.resumes = resumes]
               ELSE [NoMail EXCEPT !.fn = fn, !.pc = "done", !.resumes = resumes,
                                   !.status = 500]
    /\ UNCHANGED <<moduleFlags, resumeData, storeResp, purchased, ledgerVars, hpc, req,
                   call, resp, served, batchVars, task, probe>>

send_emails(resumes, configured) == StartSending("send_emails", resumes, configured)

send_personalized_emails(resumes, configured) ==
    StartSending("send_personalized_emails", resumes, configured)

\* a variant that gives up the loop at the first failure
deliver_abort(m, resume, outcome) ==
    IF resume.email = "" THEN [m EXCEPT !.i = @ + 1]
    ELSE IF outcome = "sent"
    THEN [m EXCEPT !.i = @ + 1, !.sent_count = @ + 1,
                   !.attempts = Append(@, resume.name)]
    ELSE [m EXCEPT !.i = Len(m.resumes), !.attempts = Append(@, resume.name),
                   !.failed_emails =
                       Append(@, [name |-> resume.name, email |-> resume.email,
                                  error |-> outcome])]

\* one iteration of the loop over the candidates: lines 1178-1202 keep only
\* the count, lines 1236-1305 also list the failure
deliver(m, resume, outcome) ==
    IF resume.email = "" THEN [m EXCEPT !.i = @ + 1]
    ELSE IF outcome = "sent"
    THEN [m EXCEPT !.i = @ + 1, !.sent_count = @ + 1,
                   !.attempts = Append(@, resume.name)]
    ELSE IF m.fn = "send_personalized_emails"
    THEN [m EXCEPT !.i = @ + 1, !.attempts = Append(@, resume.name),
                   !.failed_emails =
                       Append(@, [name |-> resume.name, email |-> resume.email,
                                  error |-> outcome])]
    ELSE [m EXCEPT !.i = @ + 1, !.attempts = Append(@, resume.name)]

send_one(outcome) ==
    /\ mail.pc = "loop"
    /\ mail.i < Len(mail.resumes)
    /\ mail' = deliver(mail, mail.resumes[mail.i + 1], outcome)
    /\ UNCHANGED <<moduleFlags, resumeData, storeResp, purchased, ledgerVars, hpc, req,
                   call, resp, served, batchVars, task, probe>>

\* lines 1204-1207 and 1307-1312
send_return ==
    /\ mail.pc = "loop"
    /\ mail.i = Len(mail.resumes)
    /\ mail' = [mail EXCEPT !.pc = "done", !.status = 200]
    /\ UNCHANGED <<moduleFlags, resumeData, storeResp, purchased, ledgerVars, hpc, req,
                   call, resp, served, batchVars, task, probe>>

\* ------------------------------------------------------------------------
\* Collection resumeData: batch persistence, /store-resume-data and
\* /update-resume-category/{resume_id}
\* ------------------------------------------------------------------------
\* origin and updated record which writer made a document and whether its
\* category was replaced afterwards
NoStoreResp == [status |-> 0, stored_count |-> 0]

\* lines 1336-1349: the document built from one element of the request
simplified_resume(resume) ==
    [score |-> IF "score" \in resume.keys THEN resume.score ELSE 0,
     category |-> IF "category" \in resume.keys THEN resume.category ELSE "rejected",
     origin |-> "store", updated |-> FALSE]

\* lines 1333-1359: the elements whose add does not raise, in request order
RECURSIVE StoreAll(_, _, _, _)
StoreAll(request, raising, i, collection) ==
    IF i > Len(request) THEN collection
    ELSE StoreAll(request, raising, i + 1,
                  IF i \in raising THEN collection
                  ELSE Append(collection, simplified_resume(request[i])))

store_resume_data(request, raising) ==
    /\ Len(resumeData) + Len(request) <= MaxStored
    /\ IF ~FIREBASE_AVAILABLE
       THEN /\ storeResp' = [status |-> 200, stored_count |-> 0]
            /\ UNCHANGED resumeData
       ELSE /\ resumeData' = StoreAll(request, raising, 1, resumeData)
            /\ storeResp' =
                 [status |-> 200,
                  stored_count |-> Len(request) -
                                   Cardinality(raising \cap DOMAIN request)]
    /\ UNCHANGED <<moduleFlags, mail, purchased, ledgerVars, hpc, req, call, resp,
                   served, batchVars, task, probe>>

\* lines 721-758: the records of the test data, scores in tenths
test_resumes ==
    <<[score |-> 85, category |-> "selected", origin |-> "test_data", updated |-> FALSE],
      [score |-> 65, category |-> "considered", origin |-> "test_data", updated |-> FALSE],
      [score |-> 35, category |-> "rejected", origin |-> "test_data", updated |-> FALSE]>>

\* lines 715-810, /test-data/{user_id}: the records are added one after the
\* other; the add number fails raises (0: none does) and ends the loop, and
\* files_raise is an add of the file records raising after the loop
create_test_data(fails, files_raise) ==
    /\ Len(resumeData) + Len(test_resumes) <= MaxStored + 1
    /\ IF ~FIREBASE_AVAILABLE
       THEN /\ storeResp' = [status |-> 200, stored_count |-> 0]
            /\ UNCHANGED resumeData
       ELSE /\ resumeData' =
                 resumeData \o SubSeq(test_resumes, 1,
                                      IF fails = 0 THEN Len(test_resumes) ELSE fails - 1)
            /\ storeResp' =
                 [status |-> 200,
                  stored_count |-> IF fails = 0 /\ ~files_raise
                                   THEN Len(test_resumes) ELSE 0]
    /\ UNCHANGED <<moduleFlags, mail, purchased, ledgerVars, hpc, req, call, resp,
                   served, batchVars, task, probe>>

\* main.py lines 1434-1447 with firebase_service.py lines 73-81: update on a
\* document that does not exist raises inside the service, which returns False
update_resume_category(resume_id, category, raises) ==
    /\ IF ~FIREBASE_AVAILABLE
       THEN /\ storeResp' = [status |-> 200, stored_count |-> 0]
            /\ UNCHANGED resumeData
       ELSE IF resume_id \in DOMAIN resumeData /\ ~raises
       THEN /\ resumeData' = [resumeData EXCEPT ![resume_id].category = category,
                                                ![resume_id].updated = TRUE]
            /\ storeResp' = [status |-> 200, stored_count |-> 0]
       ELSE /\ storeResp' = [status |-> 500, stored_count |-> 0]
            /\ UNCHANGED resumeData
    /\ UNCHANGED <<moduleFlags, mail, purchased, ledgerVars, hpc, req, call, resp,
                   served, batchVars, task, probe>>

\* ------------------------------------------------------------------------
\* Initial states and specifications
\* ------------------------------------------------------------------------
\* balances a stored document can hold before the modelled requests: none,
\* the fresh grant, or a grant of which all but 0..MaxLowTokens was consumed
InitialBalances ==
    {NoBalance} \cup
    {Balance(t, InitialGrant - t) : t \in (0..MaxLowTokens) \cup {InitialGrant}}

InitialUsage(b) ==
    IF b.total_used > 0
    THEN <<usage_data(b.total_used, "resume_screening")>>
    ELSE <<>>

Init ==
    /\ FIREBASE_AVAILABLE \in BOOLEAN
    /\ S3_AVAILABLE \in BOOLEAN
    /\ user_tokens \in InitialBalances
    /\ FIREBASE_AVAILABLE \/ user_tokens = NoBalance
    /\ token_usage = InitialUsage(user_tokens)
    /\ hpc = [c \in Clients |-> "idle"]
    /\ req = [c \in Clients |-> NoReq]
    /\ call = [c \in Clients |-> IdleCall]
    /\ resp = [c \in Clients |-> NoResp]
    /\ served = [c \in Clients |-> 0]
    /\ docs = [c \in Clients |-> <<>>]
    /\ semaphore = [c \in Clients |-> SemaphoreLimit]
    /\ task = NoTask
    /\ mail = NoMail
    /\ resumeData = <<>>
    /\ storeResp = NoStoreResp
    /\ purchased = 0
    /\ probe = NoProbe

\* what the environment can do to one document
ReadEvents ==
    {[raise |-> "none", s3ok |-> TRUE], [raise |-> "none", s3ok |-> FALSE],
     [raise |-> "read", s3ok |-> FALSE], [raise |-> "tempfile", s3ok |-> FALSE]}

SampleScores == {20, 55, 85}

Responses == {Json(s) : s \in SampleScores} \cup {Unparsable, CallRaises}

\* the three outcomes of a pipeline: success, scoring failure, exception
FewReadEvents == {[raise |-> "none", s3ok |-> TRUE], [raise |-> "read", s3ok |-> FALSE]}

FewResponses == {Json(85), CallRaises}

\* ---- Spec: one /process request of the server process with the ledger, or
\* one run of the background task; the server and the worker are separate
\* processes that share the collection resumeData, to which both only add,
\* and a behaviour runs one of them
Next ==
    \/ /\ task.pc = "idle"
       /\ served["p1"] = 0
       /\ \E n \in 0..MaxDocs, user_id \in BOOLEAN, jd \in BOOLEAN, jd_file \in BOOLEAN :
            /\ jd_file => n <= JdFileDocs
            /\ process_resumes("p1", n, user_id, jd, jd_file)
    \/ preflight_check("p1")
    \/ \E ev \in JdFileEvents : job_description_file_return("p1", ev)
    \/ LedgerStep("p1")
    \/ \E i \in 1..MaxDocs : acquire("p1", i)
    \/ \E i \in 1..MaxDocs, ev \in ReadEvents : read_return("p1", i, ev)
    \/ \E i \in 1..MaxDocs, r \in Responses : score_return("p1", i, r)
    \/ gather_return("p1")
    \/ process_return("p1")
    \/ /\ served["p1"] = 0
       /\ hpc["p1"] = "idle"
       /\ \E total \in 0..MaxDocs, user_id \in BOOLEAN :
            process_resume_batch(total, user_id)
    \/ \E ev \in ReadEvents, r \in Responses : task_document(ev, r)
    \/ task_return

Spec == Init /\ [][Next]_vars

\* ---- SpecLedger: two server processes sharing the balance store; their
\* documents all take the fallback path
NextLedger ==
    \E c \in Clients :
      \/ /\ served["p1"] + served["p2"] < LedgerRequests
         /\ initialize_user_tokens_endpoint(c)
      \/ /\ served["p1"] + served["p2"] < LedgerRequests
         /\ get_user_token_balance(c)
      \/ /\ served["p1"] + served["p2"] < LedgerRequests
         /\ \E token_package \in {"standard", "large"} :
              purchase_tokens(c, token_package)
      \/ /\ served["p1"] + served["p2"] < LedgerRequests
         /\ \E n \in 1..LedgerDocs : process_resumes(c, n, TRUE, TRUE, FALSE)
      \/ endpoint_return(c)
      \/ purchase_get(c)
      \/ purchase_update(c)
      \/ purchase_set(c)
      \/ preflight_check(c)
      \/ LedgerStep(c)
      \/ \E i \in 1..LedgerDocs : acquire(c, i)
      \/ \E i \in 1..LedgerDocs, ev \in {[raise |-> "read", s3ok |-> FALSE]} :
           read_return(c, i, ev)
      \/ gather_return(c)
      \/ process_return(c)

\* the documents of its batches fail before the upload, so that the flag of
\* the object store is not read
InitLedger == Init /\ S3_AVAILABLE

SpecLedger == InitLedger /\ [][NextLedger]_vars

\* ---- SpecSequence: one server process serving ledger requests of the
\* owner one after the other
NextSequence ==
    \/ /\ served["p1"] < SeqRequests
       /\ initialize_user_tokens_endpoint("p1")
    \/ /\ served["p1"] < SeqRequests
       /\ get_user_token_balance("p1")
    \/ /\ served["p1"] < SeqRequests
       /\ \E token_package \in {"standard", "large"} :
            purchase_tokens("p1", token_package)
    \/ /\ served["p1"] < SeqRequests
       /\ \E n \in 1..LedgerDocs : process_resumes("p1", n, TRUE, TRUE, FALSE)
    \/ endpoint_return("p1")
    \/ purchase_get("p1")
    \/ purchase_update("p1")
    \/ purchase_set("p1")
    \/ preflight_check("p1")
    \/ LedgerStep("p1")
    \/ \E i \in 1..LedgerDocs : acquire("p1", i)
    \/ \E i \in 1..LedgerDocs, ev \in {[raise |-> "read", s3ok |-> FALSE]} :
         read_return("p1", i, ev)
    \/ gather_return("p1")
    \/ process_return("p1")

SpecSequence == InitLedger /\ [][NextSequence]_vars

\* ---- SpecLarge: one batch larger than the semaphore and the chunk ----
\* its batches have no owner, so that neither flag is read
InitLarge == Init /\ FIREBASE_AVAILABLE /\ S3_AVAILABLE /\ user_tokens = NoBalance

NextLarge ==
    \/ /\ task.pc = "idle"
       /\ served["p1"] = 0
       /\ \E n \in 0..LargeDocs : process_resumes("p1", n, FALSE, TRUE, FALSE)
    \/ \E i \in 1..LargeDocs : acquire("p1", i)
    \/ \E i \in 1..LargeDocs, ev \in FewReadEvents : read_return("p1", i, ev)
    \/ \E i \in 1..LargeDocs, r \in FewResponses : score_return("p1", i, r)
    \/ gather_return("p1")
    \/ /\ served["p1"] = 0
       /\ hpc["p1"] = "idle"
       /\ \E total \in 0..LargeDocs : process_resume_batch(total, FALSE)
    \/ \E ev \in FewReadEvents, r \in FewResponses : task_document(ev, r)
    \/ task_return

SpecLarge == InitLarge /\ [][NextLarge]_vars

\* ---- SpecLive: one batch larger than the semaphore, every external call
\* eventually returning or raising, the event loop running every ready task
Admit == \E i \in 1..LargeDocs : acquire("p1", i)

ReadReturns == \E i \in 1..LargeDocs, ev \in FewReadEvents : read_return("p1", i, ev)

ScoreReturns == \E i \in 1..LargeDocs : score_return("p1", i, Json(85))

NextLive ==
    \/ /\ served["p1"] = 0
       /\ \E n \in (SemaphoreLimit + 1)..LargeDocs : process_resumes("p1", n, FALSE, TRUE, FALSE)
    \/ Admit
    \/ ReadReturns
    \/ ScoreReturns
    \/ gather_return("p1")

SpecLive ==
    /\ InitLarge
    /\ [][NextLive]_vars
    /\ WF_vars(Admit)
    /\ WF_vars(ReadReturns)
    /\ WF_vars(ScoreReturns)
    /\ WF_vars(gather_return("p1"))

\* ---- SpecCategorize: the categorizer over every score of the domain ----
Scores == (0 - 10)..MaxScore

NextCategorize == \E s \in Scores : categorize(s)

SpecCategorize == Init /\ [][NextCategorize]_vars

\* ---- SpecOrder: batches without an owner, their completion order recorded
InitOrder ==
    /\ FIREBASE_AVAILABLE \in BOOLEAN
    /\ S3_AVAILABLE \in BOOLEAN
    /\ user_tokens = NoBalance
    /\ token_usage = <<>>
    /\ hpc = [c \in Clients |-> "idle"]
    /\ req = [c \in Clients |-> NoReq]
    /\ call = [c \in Clients |-> IdleCall]
    /\ resp = [c \in Clients |-> NoResp]
    /\ served = [c \in Clients |-> 0]
    /\ docs = [c \in Clients |-> <<>>]
    /\ semaphore = [c \in Clients |-> SemaphoreLimit]
    /\ task = NoTask
    /\ mail = NoMail
    /\ resumeData = <<>>
    /\ storeResp = NoStoreResp
    /\ purchased = 0
    /\ probe = [NoProbe EXCEPT !.fn = "order"]

NextOrder ==
    \/ /\ served["p1"] < MaxRequests
       /\ \E n \in 0..MaxDocs : process_resumes("p1", n, FALSE, TRUE, FALSE)
    \/ \E i \in 1..MaxDocs : acquire("p1", i)
    \/ \E i \in 1..MaxDocs, ev \in FewReadEvents : read_return("p1", i, ev)
    \/ \E i \in 1..MaxDocs, r \in Responses : score_return("p1", i, r)
    \/ gather_return("p1")

SpecOrder == InitOrder /\ [][NextOrder]_vars

\* ---- SpecExtract: the extractions over texts made of a few fragments ----
\* the concatenations of at most n of the fragments
RECURSIVE Concats(_, _)
Concats(fragments, n) ==
    IF n = 0 THEN {<<>>}
    ELSE Concats(fragments, n - 1) \cup
         {t \o f : t \in Concats(fragments, n - 1), f \in fragments}

EmailFragments ==
    {<<"j">>, <<"j", "a", "n", "e">>, <<"@">>, <<"x">>, <<".", "c", "o", "m">>,
     <<" ">>, <<".">>}

\* what the name request does: it raises, it answers with a name, it
\* answers that it found none
NameAnswers ==
    {NameRaises, NameAnswer(<<"J", "a", "n", "e", " ", "D", "o", "e">>),
     NameAnswer(<<" ", "U", "n", "k", "n", "o", "w", "n">>)}

\* one text is extracted from in a run
NextExtract ==
    /\ probe.fn = "none"
    /\ \E text \in Concats(EmailFragments, MaxFragments) \cup {sample_text},
          answer \in NameAnswers :
         extract(text, answer, Json(80))

InitProbe ==
    /\ Init
    /\ ~FIREBASE_AVAILABLE
    /\ ~S3_AVAILABLE
    /\ validated_data = FieldStrings(ValidatedOf(sample_text, NameRaises))

SpecExtract == InitProbe /\ [][NextExtract]_vars

\* ---- SpecName: the pattern step over texts that begin with blank lines ----
BlankLines(n) == [k \in 1..n |-> "\n"]

NameLines ==
    {<<"J", "a", "n", "e", " ", "P", "u", "b", "l", "i", "c">>, <<"A", "n", "n", " ", "L", "e", "e", " ", "R", "o", "e">>,
     <<"R", "e", "s", "u", "m", "e", " ", "O", "f", " ", "J", "a", "n", "e">>, <<"j", "a", "n", "e", " ", "p", "u", "b", "l", "i", "c">>,
     <<"P", "h", "o", "n", "e", " ", "F", "o", "u", "r">>}

\* n blank lines, a line, at most one more blank line, and a second line
NameTexts ==
    {BlankLines(n) \o a \o <<"\n">> \o BlankLines(m) \o b :
        n \in 0..MaxBlankLines, m \in 0..1, a \in NameLines, b \in NameLines}

\* one text is extracted from in a run
NextName ==
    /\ probe.fn = "none"
    /\ \E text \in NameTexts : extract_name(text)

SpecName == InitProbe /\ [][NextName]_vars

\* ---- SpecValidate: the validator over fields made of a few fragments ----
FieldFragments ==
    {<<"j", "a", "n", "e">>, <<" ">>, <<"Q">>, <<"@">>, <<"x", ".", "c", "o", "m">>,
     <<"4", "1", "5", "5", "5", "5">>, <<"-", "0", "1", "0", "0">>, <<"+">>,
     <<"\n">>, Unknown}

\* one triple of fields is validated in a run
NextValidate ==
    /\ probe.fn = "none"
    /\ \E t \in Concats(FieldFragments, MaxFragments), u \in Concats(FieldFragments, 1) :
         \/ validate(t, u, t)
         \/ validate(u, t, u)

SpecValidate == InitProbe /\ [][NextValidate]_vars

\* ---- SpecMail: one send request over lists of candidates ----
\* candidate k of a list, with or without an address
Candidate(k, has_email) ==
    [name |-> k, email |-> IF has_email THEN "c@x.com" ELSE ""]

CandidateLists ==
    UNION {{[k \in 1..n |-> Candidate(k, e[k])] : e \in [1..n -> BOOLEAN]} :
             n \in 0..MaxRecipients}

NextMail ==
    \/ \E resumes \in CandidateLists, configured \in BOOLEAN :
         send_emails(resumes, configured)
    \/ \E resumes \in CandidateLists, configured \in BOOLEAN :
         send_personalized_emails(resumes, configured)
    \/ \E outcome \in SendOutcomes : send_one(outcome)
    \/ send_return

SpecMail == InitProbe /\ [][NextMail]_vars

\* ---- SpecStore: the writers of collection resumeData, served one after
\* the other: a batch of one document, the task on one document,
\* /store-resume-data, /test-data and /update-resume-category
\* categories a client sends: one of the three and one that is none of them
StoreCategories == {"selected", "shortlist"}

\* elements of a /store-resume-data request: the keys present and their values
StoreItems ==
    {[keys |-> {"score", "category"}, score |-> 30, category |-> "selected"],
     [keys |-> {"score"}, score |-> 85, category |-> ""],
     [keys |-> {}, score |-> 0, category |-> ""]}

StoreRequests == UNION {[1..n -> StoreItems] : n \in 0..MaxStored}

\* no batch and no task is in progress
StoreAtRest == hpc["p1"] = "idle" /\ task.pc # "run"

NextStore ==
    \/ /\ task.pc = "idle"
       /\ served["p1"] = 0
       /\ Len(resumeData) < MaxStored
       /\ \E user_id \in BOOLEAN : process_resumes("p1", 1, user_id, TRUE, FALSE)
    \/ preflight_check("p1")
    \/ LedgerStep("p1")
    \/ acquire("p1", 1)
    \/ \E ev \in FewReadEvents : read_return("p1", 1, ev)
    \/ \E r \in FewResponses : score_return("p1", 1, r)
    \/ gather_return("p1")
    \/ process_return("p1")
    \/ /\ served["p1"] = 0
       /\ hpc["p1"] = "idle"
       /\ Len(resumeData) < MaxStored
       /\ \E user_id \in BOOLEAN : process_resume_batch(1, user_id)
    \/ \E ev \in FewReadEvents, r \in FewResponses : task_document(ev, r)
    \/ task_return
    \/ /\ StoreAtRest
       /\ \E fails \in 0..Len(test_resumes), files_raise \in BOOLEAN :
            create_test_data(fails, files_raise)
    \/ /\ StoreAtRest
       /\ \E request \in StoreRequests :
            \E raising \in SUBSET DOMAIN request : store_resume_data(request, raising)
    \/ /\ StoreAtRest
       /\ \E resume_id \in 1..(MaxStored + 1),
             category \in StoreCategories, raises \in BOOLEAN :
            update_resume_category(resume_id, category, raises)

InitStore == Init /\ S3_AVAILABLE /\ user_tokens = NoBalance

SpecStore == InitStore /\ [][NextStore]_vars

\* ---- SpecScorer: the scorers over every outcome of the classifier call ----
ScorerResponses ==
    {Json(s) : s \in Scores} \cup
    {Unparsable, CallRaises, NotAnObject, BadScore, EmptyObject}

NextScorer == \E r \in ScorerResponses : analyze(r)

SpecScorer == Init /\ [][NextScorer]_vars

\* ------------------------------------------------------------------------
\* Properties
\* ------------------------------------------------------------------------
AllRecords(results) == results.selected \o results.considered \o results.rejected

\* the records with a given id in one bucket
Hits(bucket, id) == {j \in 1..Len(bucket) : bucket[j].id = id}

\* each of the ids 0..n-1 is carried by exactly one record
EachOnce(results, n) ==
    /\ Len(AllRecords(results)) = n
    /\ \A id \in 0..(n - 1) : Cardinality(Hits(AllRecords(results), id)) = 1

RecordOf(results, id) ==
    AllRecords(results)[CHOOSE j \in Hits(AllRecords(results), id) : TRUE]

Returned(c) == req[c].kind = "process" /\ hpc[c] = "idle" /\ resp[c].status = 200

InFlight(c) == {i \in DOMAIN docs[c] : docs[c][i].pc = "score"}

\* C1: a batch that passed preflight returns exactly one record per submitted
\* document across its three buckets, whatever each pipeline did; this is so
\* for the /process runner and for the background task.
C1_TotalCoverage ==
    /\ \A c \in Clients :
         Returned(c) =>
           /\ Total(resp[c].data) = req[c].n
           /\ EachOnce(resp[c].data, req[c].n)
    /\ task.pc = "returned" =>
           /\ Total(task.results) = task.total
           /\ EachOnce(task.results, task.total)

C1_Witness ==
    /\ Returned("p1")
    /\ req["p1"].n = LargeDocs
    /\ \E i \in DOMAIN docs["p1"] : docs["p1"][i].raised # "none"
    /\ \E i \in DOMAIN docs["p1"] : docs["p1"][i].response.kind = "raise"
    /\ \E i \in DOMAIN docs["p1"] : docs["p1"][i].response.kind = "json"

\* C2: with an owner whose stored balance is below the number of submitted
\* documents, process_resumes fails before any pipeline starts: no document
\* leaves the queue, the ledger is as it was and the response is an error.
C2_PreflightBlocks ==
    \A c \in Clients :
      (/\ req[c].kind = "process"
       /\ req[c].user_id
       /\ req[c].stored.exists
       /\ req[c].stored.tokens < req[c].n)
      => /\ hpc[c] \in {"preflight", "idle"}
         /\ \A i \in DOMAIN docs[c] : docs[c][i].pc = "queued" /\ docs[c][i].steps = <<>>
         /\ user_tokens = req[c].stored
         /\ Len(token_usage) = req[c].logged
         /\ hpc[c] = "idle" => resp[c].status \notin {0, 200}

\* C3: the stored balance of the owner is never negative.
C3_BalanceNonNegative == user_tokens.tokens >= 0

C3_Witness ==
    /\ user_tokens.exists
    /\ user_tokens.tokens = 0
    /\ \E c \in Clients : call[c].fn = "use" /\ call[c].pc = "ret" /\ call[c].ok

\* C4: two debits of different processes that both passed the sufficiency
\* check on the same balance and both returned true have lowered the balance
\* by the sum of their amounts.
C4_NoStaleDoubleDebit ==
    \A c1, c2 \in Clients :
      (/\ c1 # c2
       /\ call[c1].fn = "use" /\ call[c1].pc = "ret" /\ call[c1].ok
       /\ call[c2].fn = "use" /\ call[c2].pc = "ret" /\ call[c2].ok
       /\ call[c1].updated /\ call[c2].updated
       /\ call[c1].snap = call[c2].snap)
      => user_tokens.tokens = call[c1].snap.tokens - call[c1].amount - call[c2].amount

\* C5: a batch with an owner that passed preflight calls use_tokens once, with
\* the number of submitted documents, after every document has finished and
\* whatever the documents' outcomes; it returns its result also when the
\* debit returned false.
C5_OneDebitAfterAll ==
    \A c \in Clients :
      (req[c].kind = "process" /\ req[c].user_id) =>
        /\ req[c].debits <= 1
        /\ hpc[c] \in {"preflight", "jd_read", "gather"} =>
             req[c].debits = 0 /\ call[c].fn # "use"
        /\ call[c].fn = "use" =>
             /\ hpc[c] = "debit"
             /\ AllDone(c)
             /\ req[c].debits = 1
             /\ call[c].amount = req[c].n
        /\ (hpc[c] = "idle" /\ req[c].debits = 1) =>
             /\ resp[c].status = 200
             /\ resp[c].tokens_used = req[c].n
             /\ Total(resp[c].data) = req[c].n
        /\ (hpc[c] = "idle" /\ resp[c].status = 200) => req[c].debits = 1

C5_Witness ==
    /\ Returned("p1")
    /\ req["p1"].user_id
    /\ req["p1"].n = MaxDocs
    /\ ~resp["p1"].debit_ok
    /\ \E i \in DOMAIN docs["p1"] : docs["p1"][i].raised # "none"
    /\ \E i \in DOMAIN docs["p1"] : docs["p1"][i].success

\* C6: within one batch at most 5 scoring calls are in flight at any time.
C6_ConcurrencyCap == \A c \in Clients : Cardinality(InFlight(c)) <= 5

C6_Witness ==
    /\ Cardinality(InFlight("p1")) = 5
    /\ \E i \in DOMAIN docs["p1"] : docs["p1"][i].pc = "queued"

\* C7: when the scoring call raises for some documents of a batch, the batch
\* returns one record per document, each of those documents has score 0.0
\* and is in rejected, and every other scored document has the record its own
\* classifier answer gives.
C7_ScoringFailureIsolated ==
    \A c \in Clients :
      Returned(c) =>
        /\ EachOnce(resp[c].data, req[c].n)
        /\ \A i \in DOMAIN docs[c] :
             LET d == docs[c][i]
                 rec == RecordOf(resp[c].data, i - 1)
             IN /\ d.response.kind = "raise" =>
                     /\ rec.score = 0
                     /\ Hits(resp[c].data.rejected, i - 1) # {}
                /\ d.response.kind = "json" =>
                     /\ rec.score = d.response.score
                     /\ rec.explanation.text = d.response.explanation
                     /\ rec.strengths = d.response.strengths
                     /\ rec.name = "Jane Q Public"
                     /\ d.response.score >= 70 => Hits(resp[c].data.selected, i - 1) # {}
                     /\ (d.response.score >= 40 /\ d.response.score < 70)
                          => Hits(resp[c].data.considered, i - 1) # {}
                     /\ d.response.score < 40 => Hits(resp[c].data.rejected, i - 1) # {}

C7_Witness ==
    /\ Returned("p1")
    /\ \E i, j \in DOMAIN docs["p1"] :
         /\ docs["p1"][i].response.kind = "raise"
         /\ docs["p1"][j].response.kind = "json"
         /\ Hits(resp["p1"].data.selected, j - 1) # {}

\* the fallback record of the document with the given id, failed with e
IsFallbackRecord(rec, e) ==
    /\ rec.name = "Unknown"
    /\ rec.email = ""
    /\ rec.phone = ""
    /\ rec.score = 0
    /\ rec.category = "rejected"
    /\ rec.explanation.text = "Error processing resume: "
    /\ rec.explanation.err = e

\* C8: a document whose pipeline raised yields exactly one record, the
\* fallback record naming the failure, in rejected, and the batch returns.
C8_FallbackRecord ==
    /\ \A c \in Clients :
         /\ (req[c].kind = "process" /\ hpc[c] = "idle"
             /\ \E i \in DOMAIN docs[c] : docs[c][i].raised # "none")
            => resp[c].status = 200
         /\ Returned(c) =>
              \A i \in DOMAIN docs[c] :
                docs[c][i].raised # "none" =>
                  /\ Cardinality(Hits(AllRecords(resp[c].data), i - 1)) = 1
                  /\ Cardinality(Hits(resp[c].data.rejected, i - 1)) = 1
                  /\ IsFallbackRecord(RecordOf(resp[c].data, i - 1), docs[c][i].raised)
    /\ task.pc = "returned" =>
         /\ Len(task.events) = task.total
         /\ \A k \in 1..Len(task.events) :
              task.events[k] \in {"read", "tempfile"} =>
                /\ Cardinality(Hits(AllRecords(task.results), k - 1)) = 1
                /\ Cardinality(Hits(task.results.rejected, k - 1)) = 1
                /\ IsFallbackRecord(RecordOf(task.results, k - 1), task.events[k])

C8_Witness ==
    /\ Returned("p1")
    /\ \E i, j \in DOMAIN docs["p1"] :
         /\ docs["p1"][i].raised = "tempfile"
         /\ docs["p1"][j].success
         /\ Hits(resp["p1"].data.selected, j - 1) # {}

\* C9: categorize_resume(s) is selected iff s >= 7.0, considered iff
\* 4.0 <= s < 7.0 and rejected iff s < 4.0, and the copy of the background
\* task gives the same category.
C9_ThresholdLaw ==
    probe.fn = "categorize" =>
      /\ probe.main \in {"selected", "considered", "rejected"}
      /\ probe.main = "selected" <=> probe.arg >= 70
      /\ probe.main = "considered" <=> (probe.arg >= 40 /\ probe.arg < 70)
      /\ probe.main = "rejected" <=> probe.arg < 40
      /\ probe.tasks = probe.main

C9_Witness == probe.fn = "categorize" /\ probe.arg = 70 /\ probe.main = "selected"

\* C10: use_tokens on a stored balance returns false and changes nothing when
\* the balance is below the amount; otherwise it returns true, the balance is
\* lower by the amount, total_used higher by the amount and one usage event
\* of that amount has been appended.
C10_DebitContract ==
    \A c \in Clients :
      (/\ FIREBASE_AVAILABLE
       /\ call[c].fn = "use" /\ call[c].pc = "ret"
       /\ call[c].pre.exists)
      => IF call[c].pre.tokens < call[c].amount
         THEN /\ ~call[c].ok
              /\ user_tokens = call[c].pre
              /\ Len(token_usage) = call[c].prelog
         ELSE /\ call[c].ok
              /\ user_tokens.tokens = call[c].pre.tokens - call[c].amount
              /\ user_tokens.total_used = call[c].pre.total_used + call[c].amount
              /\ Len(token_usage) = call[c].prelog + 1
              /\ token_usage[Len(token_usage)] =
                   [user_id |-> "u1", tokens_used |-> call[c].amount,
                    operation |-> "resume_screening"]

\* C11: initialize_user_tokens creates the document with tokens 100 and
\* total_used 0 when none exists, and a call made while a document exists
\* writes nothing, whatever that document holds; right after a call that
\* created the document, with no other process at work, the store holds it
InitCalls == {c \in Clients : call[c].init # "none"}

C11_EnsureInitialized ==
    \A c \in InitCalls :
        /\ call[c].ipre.exists => call[c].wrote = NoBalance
        /\ call[c].wrote # NoBalance => call[c].wrote = Balance(100, 0)
        /\ (call[c].init = "true" /\ FIREBASE_AVAILABLE) =>
               /\ user_tokens.exists
               /\ call[c].ipre.exists \/ call[c].wrote # NoBalance
                                      \/ served[CHOOSE d \in Clients : d # c] > 0
        /\ (call[c].init = "true" /\ call[c].wrote # NoBalance
              /\ call[c].pc \in {"ret", "use_get2"} /\ call[c].fn # "use"
              /\ served[CHOOSE d \in Clients : d # c] = 0) =>
               user_tokens = Balance(100, 0)

\* one /tokens/initialize call has created the document and another, made
\* once it existed, has returned without writing
C11_Witness ==
    /\ call["p1"].fn = "init" /\ call["p1"].init = "true"
    /\ ~call["p1"].ipre.exists /\ call["p1"].wrote = Balance(100, 0)
    /\ call["p2"].fn = "init" /\ call["p2"].init = "true"
    /\ call["p2"].ipre.exists /\ call["p2"].wrote = NoBalance

\* C12: with the store configured, get_user_tokens returns a balance, a
\* document exists for the owner once it has returned, and with no other
\* process at work the balance returned is that document
C12_GetBalanceInitializes ==
    \A c \in Clients :
        (FIREBASE_AVAILABLE /\ call[c].fn = "get" /\ call[c].pc = "ret") =>
            /\ call[c].bal.exists
            /\ user_tokens.exists
            /\ served[CHOOSE d \in Clients : d # c] = 0 => call[c].bal = user_tokens

\* C13: a /process request refused for an insufficient balance answers with
\* status 402 and one refused for a missing job description with status 400;
\* in both cases no document has left the queue and use_tokens was not called
C13_PreflightErrors ==
    \A c \in Clients :
        (req[c].kind = "process" /\ hpc[c] = "idle"
           /\ resp[c].detail \in {"Insufficient tokens", "No job description provided"}) =>
            /\ resp[c].detail = "Insufficient tokens" => resp[c].status = 402
            /\ resp[c].detail = "No job description provided" => resp[c].status = 400
            /\ \A i \in DOMAIN docs[c] : docs[c][i].pc = "queued"
            /\ req[c].debits = 0

\* the default for an answer that cannot be parsed as the structured result
ParseDefault ==
    [score |-> 50, explanation |-> "Unable to parse detailed analysis",
     strengths |-> <<>>, weaknesses |-> <<>>]

\* the default for any other failure of the call
ErrorDefault ==
    [score |-> 0, explanation |-> "Error occurred during analysis",
     strengths |-> <<>>, weaknesses |-> <<>>]

\* answers that arrived and are not the structured result: text that is not
\* JSON, JSON that is not an object, an object whose score is not a number,
\* an object with none of the fields
MalformedKinds == {"unparsable", "notobject", "badscore", "emptyobject"}

\* C14: when the answer of the classifier cannot be parsed as the structured
\* result, both scorers return score 5.0 with 'Unable to parse detailed
\* analysis' and empty strengths and weaknesses; when the call fails in any
\* other way they return score 0.0 with 'Error occurred during analysis' and
\* empty strengths and weaknesses; they always return a result.
C14_ScorerDefaults ==
    probe.fn = "analyze" =>
      /\ probe.response.kind \in MalformedKinds =>
            probe.analysis = ParseDefault /\ probe.analysis_sync = ParseDefault
      /\ probe.response.kind = "raise" =>
            probe.analysis = ErrorDefault /\ probe.analysis_sync = ErrorDefault

\* C15: whatever the classifier call does, the score of the result is
\* within 0.0 .. 10.0
C15_ScoreRange ==
    probe.fn = "analyze" =>
      /\ probe.analysis.score >= 0 /\ probe.analysis.score <= 100
      /\ probe.analysis_sync.score >= 0 /\ probe.analysis_sync.score <= 100

\* C16 as stated: in each bucket of a returned batch the records are in the
\* order in which their documents finished
Buckets == {"selected", "considered", "rejected"}

RankOf(c, rec) == docs[c][rec.id + 1].rank

C16_CompletionOrder ==
    Returned("p1") =>
      \A b \in Buckets :
        \A p, q \in 1..Len(resp["p1"].data[b]) :
          p < q => RankOf("p1", resp["p1"].data[b][p]) < RankOf("p1", resp["p1"].data[b][q])

\* C16 amended: in each bucket of a returned batch the records are in the
\* order of their documents' positions in the request, whatever the order in
\* which the documents finished
C16_InputOrder ==
    Returned("p1") =>
      \A b \in Buckets :
        \A p, q \in 1..Len(resp["p1"].data[b]) :
          p < q => resp["p1"].data[b][p].id < resp["p1"].data[b][q].id

\* a returned batch with two records in one bucket, the second document
\* having finished before the first
C16_Witness ==
    /\ Returned("p1")
    /\ \E b \in Buckets :
         /\ Len(resp["p1"].data[b]) = 2
         /\ RankOf("p1", resp["p1"].data[b][1]) > RankOf("p1", resp["p1"].data[b][2])

\* the end of the longest match of the address pattern after the "@"
AddressEnd(text, at) ==
    SetMax({e \in (at + 4)..Len(text) :
              \E dot \in (at + 2)..(e - 2) :
                 /\ text[at + 1] \in Alnum
                 /\ \A i \in (at + 2)..(dot - 1) : text[i] \in DomainChars
                 /\ text[dot - 1] \in Alnum
                 /\ text[dot] = "."
                 /\ \A i \in (dot + 1)..e : text[i] \in Letters
                 /\ BoundaryAfter(text, e)})

\* the complete first address of the text: local part, "@", domain and TLD
FirstAddress(text) ==
    LET s == SetMin(EmailStarts(text))
        at == CHOOSE a \in LocalEnds(text, s) : TRUE
    IN SubSeq(text, s, AddressEnd(text, at))

\* C17: email extraction returns the complete first address found in the text,
\* and the sample document whose classifier score is 8 yields a record in
\* selected with name "Jane Q Public", email "jane@x.com", phone "4155550100".
C17_CompleteFirstAddress ==
    probe.fn = "extract" =>
      /\ EmailStarts(probe.text) # {} => probe.email = FirstAddress(probe.text)
      /\ probe.text = sample_text =>
           /\ probe.main = "selected"
           /\ probe.fields = [name |-> <<"J", "a", "n", "e", " ", "Q", " ", "P", "u", "b", "l", "i", "c">>,
                              email |-> <<"j", "a", "n", "e", "@", "x", ".", "c", "o", "m">>,
                              phone |-> <<"4", "1", "5", "5", "5", "5", "0", "1", "0", "0">>]

\* C18: the validator applied to its own output returns that output, and it
\* returns three fields for every input.
C18_ValidatorIdempotent ==
    probe.fn = "validate" =>
      /\ DOMAIN probe.once = {"name", "email", "phone"}
      /\ probe.twice = probe.once

\* a phone was normalized to its digits by the first application
C18_Witness ==
    /\ probe.fn = "validate"
    /\ probe.once.phone # <<>>
    /\ probe.once.phone # probe.fields.phone

\* the candidates of the request that have an address, in request order
WithEmail(resumes, n) ==
    SelectSeq([k \in 1..n |-> resumes[k]], LAMBDA r : r.email # "")

NamesOf(resumes) == [k \in DOMAIN resumes |-> resumes[k].name]

\* C19: in send_personalized_emails every candidate with an address is
\* attempted exactly once, in request order, whatever happened to the earlier
\* ones, and is either counted in sent_count or listed in failed_emails.
C19_FailuresCollected ==
    mail.fn = "send_personalized_emails" /\ mail.pc # "idle" /\ mail.status # 500 =>
      /\ mail.attempts = NamesOf(WithEmail(mail.resumes, mail.i))
      /\ mail.sent_count + Len(mail.failed_emails) = Len(mail.attempts)
      /\ \A j \in DOMAIN mail.failed_emails :
           \E k \in DOMAIN mail.resumes :
              /\ mail.resumes[k].name = mail.failed_emails[j].name
              /\ mail.resumes[k].email = mail.failed_emails[j].email
      /\ mail.pc = "done" => mail.i = Len(mail.resumes)

\* a send that returned after the first candidate failed and a later one was sent
C19_Witness ==
    /\ mail.fn = "send_personalized_emails"
    /\ mail.pc = "done"
    /\ mail.status = 200
    /\ Len(mail.failed_emails) >= 1
    /\ mail.failed_emails[1].name = 1
    /\ mail.sent_count >= 1
    /\ Len(mail.resumes) > Len(mail.attempts)

\* C20 as stated: every persisted record has the category of its score.
C20_CategoryOfScore ==
    \A k \in DOMAIN resumeData :
        resumeData[k].category = categorize_resume(resumeData[k].score)

\* C20: a record written by batch persistence has the category of its score
\* until update-resume-category replaces that category.
C20_BatchCategoryOfScore ==
    \A k \in DOMAIN resumeData :
        resumeData[k].origin = "batch" /\ ~resumeData[k].updated
          => resumeData[k].category = categorize_resume(resumeData[k].score)

\* a selected batch record next to a record whose category was replaced
C20_Witness ==
    \E j, k \in DOMAIN resumeData :
        /\ resumeData[j].origin = "batch"
        /\ ~resumeData[j].updated
        /\ resumeData[j].category = "selected"
        /\ resumeData[k].updated
        /\ resumeData[k].category # categorize_resume(resumeData[k].score)

\* every record of the three sequences carries the category of its score and
\* the name of the sequence it is in
Bucketed(results) ==
    \A b \in Buckets :
      \A j \in 1..Len(results[b]) :
        /\ results[b][j].category = b
        /\ results[b][j].category = categorize_resume(results[b][j].score)

\* C21: every record of a returned BatchResult, success or fallback, has
\* category == categorize(score) and is listed in the sequence its category
\* names, for the /process runner and for the background task.
C21_RecordsInOwnBucket ==
    /\ \A c \in Clients : Returned(c) => Bucketed(resp[c].data)
    /\ task.pc = "returned" => Bucketed(task.results)

\* a returned batch with a fallback record and a record of the parse default
C21_Witness ==
    /\ Returned("p1")
    /\ Len(resp["p1"].data.considered) >= 1
    /\ \E j \in 1..Len(resp["p1"].data.rejected) :
         IsFallbackRecord(resp["p1"].data.rejected[j], "read")

\* the steps of a pipeline in the order the specification gives them
StepOrder == <<"extract", "validate", "upload", "score", "categorize", "persist">>

StepNames == {StepOrder[k] : k \in DOMAIN StepOrder}

\* the place of each step in the order
StepPlace == [step \in StepNames |-> CHOOSE k \in DOMAIN StepOrder : StepOrder[k] = step]

StepIndex(step) == StepPlace[step]

\* upload and persist happen only for a batch with an owner
OptionalSteps == {"upload", "persist"}

\* the steps started so far are in pipeline order, none twice, and each was
\* preceded by every earlier step that is not optional: each step comes
\* later in the order than the one logged before it, and only optional steps
\* lie between the two
InPipelineOrder(steps) ==
    \A a \in DOMAIN steps :
      /\ steps[a] \in StepNames
      /\ LET before == IF a = 1 THEN 0 ELSE StepIndex(steps[a - 1])
         IN /\ before < StepIndex(steps[a])
            /\ \A k \in (before + 1)..(StepIndex(steps[a]) - 1) :
                 StepOrder[k] \in OptionalSteps

\* C22: within one document's pipeline the steps occur in the order extract,
\* validate, upload, score, categorize, persist, in every interleaving with
\* the other documents; while the scoring call is in flight no later step of
\* that document has started.
C22_StepsInOrder ==
    /\ \A c \in Clients :
         \A i \in DOMAIN docs[c] :
            /\ InPipelineOrder(docs[c][i].steps)
            /\ docs[c][i].pc = "score" =>
                 docs[c][i].steps[Len(docs[c][i].steps)] = "score"
            /\ docs[c][i].pc \in {"queued", "read"} => docs[c][i].steps = <<>>
    /\ InPipelineOrder(task.steps)

\* two documents in flight, one already past all six steps while the other
\* is still being scored
C22_Witness ==
    \E i, j \in DOMAIN docs["p1"] :
        /\ docs["p1"][i].steps = StepOrder
        /\ docs["p1"][j].pc = "score"

\* the lines of a text that are not blank
NonEmptyLines(text) == SelectSeq(SplitLines(text), LAMBDA l : str_strip(l) # <<>>)

\* the first line, among the first limit of the given lines, that is a name line
FirstNameLine(lines, limit) ==
    LET hits == {k \in DOMAIN lines : k <= limit /\ IsNameLine(lines[k])}
    IN IF hits = {} THEN 0 ELSE SetMin(hits)

\* C23 as stated: the limit of 10 counts the lines that are not blank, so the
\* first name line among the first 10 non-empty lines is returned whatever
\* number of blank lines precedes it.
C23_FirstTenNonEmpty ==
    probe.fn = "name" =>
      LET lines == NonEmptyLines(probe.text)
          k == FirstNameLine(lines, NameLineLimit)
      IN k # 0 => probe.name = Join(str_split(lines[k]))

\* C23: the limit of 10 counts every line, blank ones included: the first name
\* line among the first 10 lines of the text is returned, and a name line
\* further down is not found by the scan of the first lines.
C23_FirstTenLines ==
    probe.fn = "name" =>
      LET lines == SplitLines(probe.text)
          k == FirstNameLine(lines, NameLineLimit)
      IN /\ k # 0 => probe.name = Join(str_split(lines[k]))
         /\ k = 0 => probe.name = Unknown

\* a name line found on the tenth line, after nine blank lines
C23_Witness ==
    /\ probe.fn = "name"
    /\ FirstNameLine(SplitLines(probe.text), NameLineLimit) = NameLineLimit
    /\ probe.name # Unknown

\* C24: when a document's pipeline has returned, by any exit path, the
\* temporary file it created has been deleted, and so has the temporary copy
\* of the job-description file once process_resumes has handled the file.
C24_TempFilesReleased ==
    \A c \in Clients :
      /\ \A i \in DOMAIN docs[c] :
           docs[c][i].pc = "done" => docs[c][i].tmp \in {"none", "deleted"}
      /\ hpc[c] # "jd_read" => req[c].jd_tmp \in {"none", "deleted"}

\* C25: every document of a batch in progress is eventually admitted through
\* the semaphore, and the batch eventually returns its result with every
\* pipeline finished and every slot released.
C25_AdmissionLiveness ==
    (hpc["p1"] = "gather")
      ~> (/\ Returned("p1")
          /\ \A i \in DOMAIN docs["p1"] :
               docs["p1"][i].pc = "done" /\ docs["p1"][i].kind = "returned"
          /\ semaphore["p1"] = SemaphoreLimit)

\* a document waiting for a slot while all five are taken
C25_Witness ==
    /\ hpc["p1"] = "gather"
    /\ semaphore["p1"] = 0
    /\ \E i \in DOMAIN docs["p1"] : docs["p1"][i].pc = "queued"

\* C26: whenever use_tokens returns false, for any reason, the owner's
\* remaining and total_consumed are those the call found; stated for an owner
\* whose balance document existed before the call.
C26_FalseLeavesBalance ==
    \A c \in Clients :
      (call[c].fn = "use" /\ call[c].pc = "ret" /\ ~call[c].ok /\ call[c].pre.exists)
        => /\ user_tokens.tokens = call[c].pre.tokens
           /\ user_tokens.total_used = call[c].pre.total_used

\* sum of the amounts of the usage events of collection token_usage
RECURSIVE LoggedTotal(_)
LoggedTotal(log) ==
    IF log = <<>> THEN 0 ELSE log[1].tokens_used + LoggedTotal(Tail(log))

\* no call of use_tokens is between its first store call and its return
DebitsAtRest == \A c \in Clients : call[c].fn = "use" => call[c].pc = "ret"

\* C27: once the debits of the owner have returned, in whatever order and
\* interleaving they ran, total_used of the balance document equals the sum
\* of the amounts of the usage events logged for the owner.
C27_AuditConsistent ==
    (DebitsAtRest /\ user_tokens.exists)
      => user_tokens.total_used = LoggedTotal(token_usage)

\* C28: after any sequence of initialize, debit and purchase operations of
\* the owner, tokens + total_used of the balance document is the free grant
\* plus one package per successful purchase; a successful purchase has added
\* one package to tokens and left total_used as it was, the free grant
\* standing for tokens when the purchase found no document.
C28_Conservation ==
    /\ user_tokens.exists
         => user_tokens.tokens + user_tokens.total_used
              = InitialGrant + PackageTokens * purchased
    /\ (req["p1"].kind = "purchase" /\ hpc["p1"] = "idle" /\ resp["p1"].status = 200)
         => /\ user_tokens.exists
            /\ user_tokens.total_used = req["p1"].stored.total_used
            /\ user_tokens.tokens =
                 (IF req["p1"].stored.exists THEN req["p1"].stored.tokens
                  ELSE InitialGrant) + PackageTokens

\* a first-access purchase followed by a debit of one document
C28_Witness ==
    /\ purchased = 1
    /\ user_tokens = Balance(InitialGrant + PackageTokens - 1, 1)
    /\ Len(token_usage) = 1
    /\ hpc["p1"] = "idle"

\* C29: with the ledger store configured, a batch of an owner that has
\* returned its result has had one unit per submitted document debited,
\* whatever other batches of the owner ran beside it: total_used of the
\* balance document has grown by at least the batch's documents since the
\* batch arrived.
C29_NoUnpaidProcessing ==
    FIREBASE_AVAILABLE =>
      \A c \in Clients :
        (Returned(c) /\ req[c].user_id)
          => /\ user_tokens.exists
             /\ user_tokens.total_used >= req[c].stored.total_used + req[c].n

\* C30: for an owner whose balance document exists when a batch arrives, the
\* balance get_user_tokens returns to the preflight of the batch holds the
\* tokens of that document, also when the read of the store raised; no other
\* process writes the document meanwhile.
C30_StoredBalanceReturned ==
    (/\ req["p1"].kind = "process"
     /\ req["p1"].stored.exists
     /\ call["p1"].fn = "get"
     /\ call["p1"].pc = "ret")
      => /\ user_tokens = req["p1"].stored
         /\ call["p1"].bal.tokens = user_tokens.tokens

====
